---- MODULE Spec2Model ----
(***************************************************************************)
(* Model of the ticket-reservation server: the in-memory Database          *)
(* (src/src/database.cpp) and the request handlers that use it             *)
(* (src/ticket_server.cpp).  Characters are their ASCII codes, sequences   *)
(* are 1-based, so the C++ element x[i] is x[i + 1] here.                  *)
(***************************************************************************)
EXTENDS Integers, Sequences, FiniteSets, TLC

(***************************************************************************)
(* Program constants.                                                      *)
(***************************************************************************)
TICKET_LEN == 7
MAX_CONTENT_SIZE == 65507
\* Mutant of MAX_TICKET_COUNT: the reply header is not taken off the budget.
MAX_TICKET_COUNT_no_header == MAX_CONTENT_SIZE \div TICKET_LEN

MAX_TICKET_COUNT == (MAX_CONTENT_SIZE - 1 - 4 - 2) \div TICKET_LEN
COOKIE_LEN == 48
MIN_COOKIE_CHAR == 33
MIN_RESERVATION_ID == 10000000

PRIMES ==
    << 15485863,  49979687,  86028121,
       104395303, 122949829, 160481183,
       160481219, 198491317, 198491329,
       236887691, 256203161, 256203221,
       295075147, 295075153, 314606869,
       314606891, 334214459, 334214467,
       353868013, 353868019, 373587883,
       373587911, 393342739, 393342743,
       413158511, 413158523, 433024223,
       433024253, 452930459, 452930477,
       472882027, 472882049, 492876847,
       492876863, 512927357, 512927377,
       533000389, 533000401, 553105243,
       553105253, 573259391, 573259433,
       593441843, 593441861, 613651349,
       613651369, 633910099, 633910111 >>

SMALL_PRIMES ==
    << 2, 3, 5, 7, 11, 13, 17, 19, 23, 29, 31, 37, 41,
       43, 47, 53, 59, 61, 67, 71, 73, 79, 83, 89 >>

\* ASCII codes of the characters the ticket arithmetic names.
CH_0 == 48
CH_9 == 57
CH_A == 65
CH_Z == 90

\* The reservation id is a uint32_t.  TLC's integers are the 32-bit signed
\* ones, so a uint32_t value is written as the int32_t of the same 32 bits:
\* 0 .. 2147483647 are themselves, and 2147483648 .. 4294967295 are written
\* as the value minus 2^32, that is -2147483648 .. -1.  The operators below
\* are the uint32_t operations of the program on values written so.
INT32_MAX == 2147483647
INT32_MIN == (0 - INT32_MAX) - 1

\* 4294967295, the largest uint32_t.
UINT32_MAX == 0 - 1

\* x + 1 in uint32_t: 2147483647 + 1 = 2147483648, 4294967295 + 1 = 0.
uint32_add1(x) == IF x = INT32_MAX THEN INT32_MIN ELSE x + 1

\* a < b in uint32_t.
uint32_less(a, b) == IF (a < 0) = (b < 0) THEN a < b ELSE b < 0

\* x % q for a uint32_t x and a divisor 0 < q < 2^15: for a value written
\* as x - 2^32 the remainder of 2^32 is added back.
uint32_mod(x, q) ==
    IF x >= 0 THEN x % q
    ELSE ((x % q) + (((65536 % q) * (65536 % q)) % q)) % q

(***************************************************************************)
(* Bounds and inputs of the model.                                         *)
(***************************************************************************)
MaxTime == 2            \* the clock runs over 0..MaxTime
MaxTimeout == 1         \* the server's timeout is drawn from 1..MaxTimeout
MaxReservations == 2    \* at most this many successful reservations

\* The catalogue the event file describes: initial ticket count per event.
InitialTickets == << 2, 1 >>

\* Requested ticket counts: zero and small ones.
TicketCounts == {0, 1, 2}

\* Requested event ids: every catalogue id and the first id outside it.
EventIds == 0 .. Len(InitialTickets)

(***************************************************************************)
(* State.                                                                  *)
(***************************************************************************)
VARIABLES
    timeout,                \* Database::timeout
    events,                 \* Database::events
    reservations,           \* Database::reservations (id -> ReservationInfo)
    reservation_queue,      \* Database::reservation_queue
    next_reservation_id,    \* Database::next_reservation_id
    base_ticket,            \* Database::base_ticket
    now,                    \* the clock value the last request was handled at
    response,               \* the outcome of the last request handled
    issued,                 \* history: the Reservations returned so far
    redeemed,               \* history: id -> the first ticket list returned for it
    probe                   \* the arguments and the result of a function run on its own

vars == << timeout, events, reservations, reservation_queue,
           next_reservation_id, base_ticket, now, response, issued, redeemed,
           probe >>

\* The Database object as one value, as the member functions see it.
DB ==
    [ timeout             |-> timeout,
      events              |-> events,
      reservations        |-> reservations,
      reservation_queue   |-> reservation_queue,
      next_reservation_id |-> next_reservation_id,
      base_ticket         |-> base_ticket ]

(***************************************************************************)
(* Auxiliary structs.                                                      *)
(***************************************************************************)
\* The description of an event is given by description.length().
Event(event_id_, description_, ticket_count_) ==
    [ event_id     |-> event_id_,
      description  |-> description_,
      ticket_count |-> ticket_count_ ]

\* Mutant of cookie_byte: every byte is taken modulo SMALL_PRIMES[0].
cookie_byte_first_prime(reservation_id, i) ==
    IF i < COOKIE_LEN \div 2
    THEN uint32_mod(reservation_id, SMALL_PRIMES[1]) + MIN_COOKIE_CHAR
    ELSE LET q == SMALL_PRIMES[1]
         IN  ((uint32_mod(uint32_add1(reservation_id), q) * (PRIMES[i + 1] % q)) % q)
             + MIN_COOKIE_CHAR

\* Mutant of cookie_byte: MIN_COOKIE_CHAR is not added.
cookie_byte_no_offset(reservation_id, i) ==
    IF i < COOKIE_LEN \div 2
    THEN uint32_mod(reservation_id, SMALL_PRIMES[i + 1])
    ELSE LET q == SMALL_PRIMES[i - COOKIE_LEN \div 2 + 1]
         IN  (uint32_mod(uint32_add1(reservation_id), q) * (PRIMES[i + 1] % q)) % q

\* cookie[i] for i in 0 .. COOKIE_LEN - 1.  The products of the second half
\* stay below 2^64 in the program, so they are reduced modulo the small
\* prime factor by factor here.
cookie_byte(reservation_id, i) ==
    IF i < COOKIE_LEN \div 2
    THEN uint32_mod(reservation_id, SMALL_PRIMES[i + 1]) + MIN_COOKIE_CHAR
    ELSE LET q == SMALL_PRIMES[i - COOKIE_LEN \div 2 + 1]
         IN  ((uint32_mod(uint32_add1(reservation_id), q) * (PRIMES[i + 1] % q)) % q)
             + MIN_COOKIE_CHAR

generate_cookie(reservation_id) ==
    [ k \in 1 .. COOKIE_LEN |-> cookie_byte(reservation_id, k - 1) ]

Reservation(reservation_id_, event_id_, ticket_count_, expiration_time_) ==
    [ reservation_id  |-> reservation_id_,
      event_id        |-> event_id_,
      ticket_count    |-> ticket_count_,
      cookie          |-> generate_cookie(reservation_id_),
      expiration_time |-> expiration_time_ ]

\* ticket_min is not initialised by the constructor; generate_tickets sets
\* it before the record is stored.
ReservationInfo(reservation) ==
    [ event_id     |-> reservation.event_id,
      ticket_count |-> reservation.ticket_count,
      cookie       |-> reservation.cookie,
      ticket_min   |-> << >>,
      received     |-> FALSE ]

ReservationTime(reservation_id_, expiration_time_) ==
    [ reservation_id |-> reservation_id_, expiration_time |-> expiration_time_ ]

(***************************************************************************)
(* Auxiliary functions.                                                    *)
(***************************************************************************)
\* Mutant of cmp_cookies: the loop stops one byte early.
cmp_cookies_short(cookie1, cookie2) ==
    \A k \in 1 .. COOKIE_LEN - 1 : cookie1[k] = cookie2[k]

cmp_cookies(cookie1, cookie2) ==
    \A k \in 1 .. COOKIE_LEN : cookie1[k] = cookie2[k]

\* The number of positions the loop of cmp_cookies looks at before it
\* returns: up to and including the first one where the cookies differ, or
\* all of them.
cmp_cookies_inspected(cookie1, cookie2) ==
    LET differing == { k \in 1 .. COOKIE_LEN : cookie1[k] # cookie2[k] }
    IN  IF differing = {} THEN COOKIE_LEN
        ELSE CHOOSE k \in differing : \A j \in differing : k <= j

to_int(c) == IF c < CH_A THEN c - CH_0 ELSE c - CH_A + 10

to_char(x) == IF x > 9 THEN CH_A + x - 10 ELSE CH_0 + x

\* const int offset = '9' - '0' + 1 + 'Z' - 'A' + 1;
offset == CH_9 - CH_0 + 1 + CH_Z - CH_A + 1

\* The memory increase_ticket reaches through char *ticket: ticket[0] ..
\* ticket[TICKET_LEN], the TICKET_LEN bytes of the ticket followed by the
\* byte `after` that lies behind them, which is no part of the ticket.
TicketMemory(ticket, after) == Append(ticket, after)

\* The ticket in the memory increase_ticket has worked on.
TicketOf(memory) == SubSeq(memory, 1, TICKET_LEN)

\* ticket[TICKET_LEN] of that memory, the byte behind the ticket.
AfterTicket(memory) == memory[TICKET_LEN + 1]

\* The passes i, i + 1, ... of the loop of increase_ticket over the memory
\* at `ticket`.  ++ticket[i + 1] has no bound: the carry of the last
\* position, i = TICKET_LEN - 1, increments the byte behind the ticket.
RECURSIVE increase_ticket_from(_, _, _)
increase_ticket_from(ticket, difference, i) ==
    IF i >= TICKET_LEN THEN ticket
    ELSE LET value   == (difference % offset) + to_int(ticket[i + 1])
             carry   == value > offset
             bumped  == IF carry
                        THEN [ticket EXCEPT ![i + 2] = @ + 1]
                        ELSE ticket
             value2  == IF carry THEN value - offset ELSE value
             written == [bumped EXCEPT ![i + 1] = to_char(value2)]
         IN  increase_ticket_from(written, difference \div offset, i + 1)

\* increase_ticket(ticket, difference) on the TICKET_LEN + 1 bytes at
\* `ticket`; the result is those bytes after the call.
increase_ticket(ticket, difference) ==
    increase_ticket_from(ticket, difference, 0)

(***************************************************************************)
(* Database.                                                               *)
(***************************************************************************)
\* std::unordered_map::emplace: no insertion when the key is present.
emplace(map, key, value) ==
    IF key \in DOMAIN map THEN map
    ELSE [ k \in DOMAIN map \cup {key} |-> IF k = key THEN value ELSE map[k] ]

\* std::unordered_map::erase
erase(map, key) == [ k \in DOMAIN map \ {key} |-> map[k] ]

\* The line pairs of an event file whose descriptions all have
\* DescriptionLength characters and whose numbers are `counts`.
DescriptionLength == 3

Catalogue(counts) ==
    [ k \in 1 .. Len(counts) |->
        [ description |-> DescriptionLength, ticket_count |-> counts[k] ] ]

\* load_database: Database::Database followed by one add_event per line
\* pair of the file.  `catalogue` is the sequence of line pairs read, each
\* a description and a ticket count.
Database(timeout_, catalogue) ==
    [ timeout             |-> timeout_,
      events              |-> [ k \in 1 .. Len(catalogue) |->
                                  Event(k - 1, catalogue[k].description,
                                        catalogue[k].ticket_count) ],
      reservations        |-> << >>,
      reservation_queue   |-> << >>,
      next_reservation_id |-> MIN_RESERVATION_ID,
      base_ticket         |-> [ k \in 1 .. TICKET_LEN |-> CH_0 ] ]

\* Mutant of get_reservation_id: the id is incremented before it is
\* returned (++next_reservation_id).
get_reservation_id_preincrement(db) ==
    IF uint32_less(uint32_add1(db.next_reservation_id), MIN_RESERVATION_ID)
    THEN [ db |-> db, status |-> "InvalidReservationID", value |-> 0 ]
    ELSE [ db     |-> [db EXCEPT !.next_reservation_id = uint32_add1(@)],
           status |-> "ok",
           value  |-> uint32_add1(db.next_reservation_id) ]

\* Mutant of get_reservation_id: the id is handed out without the check.
get_reservation_id_unchecked(db) ==
    [ db     |-> [db EXCEPT !.next_reservation_id = uint32_add1(@)],
      status |-> "ok",
      value  |-> db.next_reservation_id ]

get_reservation_id(db) ==
    IF uint32_less(uint32_add1(db.next_reservation_id), MIN_RESERVATION_ID)
    THEN [ db |-> db, status |-> "InvalidReservationID", value |-> 0 ]
    ELSE [ db     |-> [db EXCEPT !.next_reservation_id = uint32_add1(@)],
           status |-> "ok",
           value  |-> db.next_reservation_id ]

\* Mutant of generate_tickets: the counter advances by one ticket too few.
generate_tickets_short(db, reservation, ticket_count) ==
    [ db          |-> [db EXCEPT !.base_ticket =
                          TicketOf(increase_ticket(TicketMemory(@, 0),
                                                   ticket_count - 1))],
      reservation |-> [reservation EXCEPT !.ticket_min = db.base_ticket] ]

\* base_ticket is the last member of Database and the byte behind it is
\* padding at the end of the object (base_ticket is at 172 .. 178 of its
\* 184 bytes), which nothing reads: a carry out of the last position of the
\* counter is stored there and lost.
generate_tickets(db, reservation, ticket_count) ==
    [ db          |-> [db EXCEPT !.base_ticket =
                          TicketOf(increase_ticket(TicketMemory(@, 0),
                                                   ticket_count))],
      reservation |-> [reservation EXCEPT !.ticket_min = db.base_ticket] ]

\* Mutant of remove_reservation: the record is erased without giving its
\* tickets back to the event.
remove_reservation_keeps_tickets(db, reservation_id) ==
    IF reservation_id \notin DOMAIN db.reservations THEN db
    ELSE LET record == db.reservations[reservation_id]
         IN  IF record.received THEN db
             ELSE [db EXCEPT !.reservations = erase(@, reservation_id)]

\* Mutant of remove_reservation: the received flag is not looked at.
remove_reservation_ignores_received(db, reservation_id) ==
    IF reservation_id \notin DOMAIN db.reservations THEN db
    ELSE LET record == db.reservations[reservation_id]
         IN  [db EXCEPT
                 !.events[record.event_id + 1].ticket_count =
                     @ + record.ticket_count,
                 !.reservations = erase(@, reservation_id)]

\* Mutant of remove_reservation: the codes of the erased reservation go
\* back to the minter.
remove_reservation_returns_block(db, reservation_id) ==
    IF reservation_id \notin DOMAIN db.reservations THEN db
    ELSE LET record == db.reservations[reservation_id]
         IN  IF record.received THEN db
             ELSE [db EXCEPT
                     !.events[record.event_id + 1].ticket_count =
                         @ + record.ticket_count,
                     !.reservations = erase(@, reservation_id),
                     !.base_ticket = record.ticket_min]

\* Mutant of remove_reservation: the tickets go back but the record stays.
remove_reservation_keeps_record(db, reservation_id) ==
    IF reservation_id \notin DOMAIN db.reservations THEN db
    ELSE LET record == db.reservations[reservation_id]
         IN  IF record.received THEN db
             ELSE [db EXCEPT
                     !.events[record.event_id + 1].ticket_count =
                         @ + record.ticket_count]

remove_reservation(db, reservation_id) ==
    IF reservation_id \notin DOMAIN db.reservations THEN db
    ELSE LET record == db.reservations[reservation_id]
         IN  IF record.received THEN db
             ELSE [db EXCEPT
                     !.events[record.event_id + 1].ticket_count =
                         @ + record.ticket_count,
                     !.reservations = erase(@, reservation_id)]

\* Mutant of clean_queue: the loop runs at most once.
clean_queue_pops_one(db, current_time) ==
    IF db.reservation_queue = << >> THEN db
    ELSE LET top == Head(db.reservation_queue)
         IN  IF top.expiration_time < current_time
             THEN [remove_reservation(db, top.reservation_id) EXCEPT
                      !.reservation_queue = Tail(@)]
             ELSE db

\* Mutant of clean_queue: an entry is popped at its deadline already.
RECURSIVE clean_queue_inclusive(_, _)
clean_queue_inclusive(db, current_time) ==
    IF db.reservation_queue = << >> THEN db
    ELSE LET top == Head(db.reservation_queue)
         IN  IF top.expiration_time <= current_time
             THEN clean_queue_inclusive(
                     [remove_reservation(db, top.reservation_id) EXCEPT
                         !.reservation_queue = Tail(@)],
                     current_time)
             ELSE db

RECURSIVE clean_queue(_, _)
clean_queue(db, current_time) ==
    IF db.reservation_queue = << >> THEN db
    ELSE LET top == Head(db.reservation_queue)
         IN  IF top.expiration_time < current_time
             THEN clean_queue(
                     [remove_reservation(db, top.reservation_id) EXCEPT
                         !.reservation_queue = Tail(@)],
                     current_time)
             ELSE db

NoReservation == [ reservation_id |-> 0, event_id |-> 0, ticket_count |-> 0,
                   cookie |-> << >>, expiration_time |-> 0 ]

\* Mutant of make_reservation: the deadline is the current time, without the
\* timeout.
make_reservation_expires_now(db, current_time, event_id, ticket_count) ==
    IF ticket_count = 0
    THEN [ db |-> db, status |-> "InvalidTicketCount", result |-> NoReservation ]
    ELSE IF ticket_count > MAX_TICKET_COUNT
    THEN [ db |-> db, status |-> "TooManyTickets", result |-> NoReservation ]
    ELSE IF event_id >= Len(db.events)
    THEN [ db |-> db, status |-> "EventNotFound", result |-> NoReservation ]
    ELSE IF db.events[event_id + 1].ticket_count < ticket_count
    THEN [ db |-> db, status |-> "TicketShortage", result |-> NoReservation ]
    ELSE
      LET expiration_time == current_time
          got             == get_reservation_id(db)
      IN  IF got.status # "ok"
          THEN [ db |-> db, status |-> got.status, result |-> NoReservation ]
          ELSE
            LET reservation_id == got.value
                db1    == [got.db EXCEPT
                             !.events[event_id + 1].ticket_count = @ - ticket_count]
                result == Reservation(reservation_id, event_id, ticket_count,
                                      expiration_time)
                gen    == generate_tickets(db1, ReservationInfo(result), ticket_count)
                db2    == [gen.db EXCEPT
                             !.reservations = emplace(@, reservation_id, gen.reservation),
                             !.reservation_queue =
                                 Append(@, ReservationTime(reservation_id, expiration_time))]
            IN  [ db |-> db2, status |-> "ok", result |-> result ]

\* Mutant of make_reservation: the event id is checked before the ticket
\* count.
make_reservation_event_first(db, current_time, event_id, ticket_count) ==
    IF event_id >= Len(db.events)
    THEN [ db |-> db, status |-> "EventNotFound", result |-> NoReservation ]
    ELSE IF ticket_count = 0
    THEN [ db |-> db, status |-> "InvalidTicketCount", result |-> NoReservation ]
    ELSE IF ticket_count > MAX_TICKET_COUNT
    THEN [ db |-> db, status |-> "TooManyTickets", result |-> NoReservation ]
    ELSE IF db.events[event_id + 1].ticket_count < ticket_count
    THEN [ db |-> db, status |-> "TicketShortage", result |-> NoReservation ]
    ELSE
      LET expiration_time == current_time + db.timeout
          got             == get_reservation_id(db)
      IN  IF got.status # "ok"
          THEN [ db |-> db, status |-> got.status, result |-> NoReservation ]
          ELSE
            LET reservation_id == got.value
                db1    == [got.db EXCEPT
                             !.events[event_id + 1].ticket_count = @ - ticket_count]
                result == Reservation(reservation_id, event_id, ticket_count,
                                      expiration_time)
                gen    == generate_tickets(db1, ReservationInfo(result), ticket_count)
                db2    == [gen.db EXCEPT
                             !.reservations = emplace(@, reservation_id, gen.reservation),
                             !.reservation_queue =
                                 Append(@, ReservationTime(reservation_id, expiration_time))]
            IN  [ db |-> db2, status |-> "ok", result |-> result ]

\* Mutant of make_reservation: the tickets are taken from the event before
\* the id is asked for.
make_reservation_takes_first(db, current_time, event_id, ticket_count) ==
    IF ticket_count = 0
    THEN [ db |-> db, status |-> "InvalidTicketCount", result |-> NoReservation ]
    ELSE IF ticket_count > MAX_TICKET_COUNT
    THEN [ db |-> db, status |-> "TooManyTickets", result |-> NoReservation ]
    ELSE IF event_id >= Len(db.events)
    THEN [ db |-> db, status |-> "EventNotFound", result |-> NoReservation ]
    ELSE IF db.events[event_id + 1].ticket_count < ticket_count
    THEN [ db |-> db, status |-> "TicketShortage", result |-> NoReservation ]
    ELSE
      LET expiration_time == current_time + db.timeout
          db0 == [db EXCEPT
                    !.events[event_id + 1].ticket_count = @ - ticket_count]
          got == get_reservation_id(db0)
      IN  IF got.status # "ok"
          THEN [ db |-> db0, status |-> got.status, result |-> NoReservation ]
          ELSE
            LET reservation_id == got.value
                result == Reservation(reservation_id, event_id, ticket_count,
                                      expiration_time)
                gen    == generate_tickets(got.db, ReservationInfo(result),
                                           ticket_count)
                db2    == [gen.db EXCEPT
                             !.reservations = emplace(@, reservation_id, gen.reservation),
                             !.reservation_queue =
                                 Append(@, ReservationTime(reservation_id, expiration_time))]
            IN  [ db |-> db2, status |-> "ok", result |-> result ]

make_reservation(db, current_time, event_id, ticket_count) ==
    IF ticket_count = 0
    THEN [ db |-> db, status |-> "InvalidTicketCount", result |-> NoReservation ]
    ELSE IF ticket_count > MAX_TICKET_COUNT
    THEN [ db |-> db, status |-> "TooManyTickets", result |-> NoReservation ]
    ELSE IF event_id >= Len(db.events)
    THEN [ db |-> db, status |-> "EventNotFound", result |-> NoReservation ]
    ELSE IF db.events[event_id + 1].ticket_count < ticket_count
    THEN [ db |-> db, status |-> "TicketShortage", result |-> NoReservation ]
    ELSE
      LET expiration_time == current_time + db.timeout
          got             == get_reservation_id(db)
      IN  IF got.status # "ok"
          THEN [ db |-> db, status |-> got.status, result |-> NoReservation ]
          ELSE
            LET reservation_id == got.value
                db1    == [got.db EXCEPT
                             !.events[event_id + 1].ticket_count = @ - ticket_count]
                result == Reservation(reservation_id, event_id, ticket_count,
                                      expiration_time)
                gen    == generate_tickets(db1, ReservationInfo(result), ticket_count)
                db2    == [gen.db EXCEPT
                             !.reservations = emplace(@, reservation_id, gen.reservation),
                             !.reservation_queue =
                                 Append(@, ReservationTime(reservation_id, expiration_time))]
            IN  [ db |-> db2, status |-> "ok", result |-> result ]

\* std::vector<Ticket> result(n) of get_tickets after its loop.  `codes` is
\* result[0] .. result[n - 1]: the first is ticket_min, each next one a copy
\* of the one before, increased by 1.  The byte behind result[i].code is
\* result[i + 1].code[0], which is zero until the next pass copies over it,
\* and for i = n - 1 the first byte behind the storage of the vector:
\* `behind` is the number of times the loop has incremented that one.
\* result_from is the loop from the pass i = Len(codes) on (a byte is never
\* negative: the test on memory[1] only orders the evaluation).
RECURSIVE result_from(_, _, _)
result_from(codes, behind, n) ==
    IF Len(codes) >= n THEN [ codes |-> codes, behind |-> behind ]
    ELSE LET memory == increase_ticket(TicketMemory(codes[Len(codes)], 0), 1)
         IN  IF memory[1] >= 0
             THEN result_from(Append(codes, TicketOf(memory)),
                              AfterTicket(memory), n)
             ELSE [ codes |-> codes, behind |-> behind ]

result_vector(ticket_min, n) == result_from(<< ticket_min >>, 0, n)

\* result[0] .. result[n - 1] of get_tickets.
ticket_codes(ticket_min, n) == result_vector(ticket_min, n).codes

\* A store outside every object is undefined behaviour.  The builds either
\* go on as if it had not happened or the process is ended (glibc aborts
\* it over the damaged heap, or it is killed by SIGSEGV).
Outcomes(status) ==
    IF status = "undefined" THEN { "ok", "abort" } ELSE { status }

\* Mutant of get_tickets: the record is erased once its tickets are read.
get_tickets_erasing(db, current_time, reservation_id, cookie) ==
    LET db1 == clean_queue(db, current_time)
    IN  IF reservation_id \notin DOMAIN db1.reservations
        THEN [ db |-> db1, status |-> "ReservationNotFound", result |-> << >> ]
        ELSE LET reservation == db1.reservations[reservation_id]
             IN  IF ~ cmp_cookies(cookie, reservation.cookie)
                 THEN [ db |-> db1, status |-> "InvalidCookie", result |-> << >> ]
                 ELSE [ db     |-> [db1 EXCEPT
                                      !.reservations = erase(@, reservation_id)],
                        status |-> "ok",
                        result |-> ticket_codes(reservation.ticket_min,
                                                reservation.ticket_count) ]

\* Mutant of get_tickets: the expiry queue is not swept first.
get_tickets_no_sweep(db, current_time, reservation_id, cookie) ==
    LET db1 == db
    IN  IF reservation_id \notin DOMAIN db1.reservations
        THEN [ db |-> db1, status |-> "ReservationNotFound", result |-> << >> ]
        ELSE LET reservation == db1.reservations[reservation_id]
             IN  IF ~ cmp_cookies(cookie, reservation.cookie)
                 THEN [ db |-> db1, status |-> "InvalidCookie", result |-> << >> ]
                 ELSE [ db     |-> [db1 EXCEPT
                                      !.reservations[reservation_id].received = TRUE],
                        status |-> "ok",
                        result |-> ticket_codes(reservation.ticket_min,
                                                reservation.ticket_count) ]

\* Mutant of get_tickets: a reservation that is received is not found.
get_tickets_once(db, current_time, reservation_id, cookie) ==
    LET db1 == clean_queue(db, current_time)
    IN  IF reservation_id \notin DOMAIN db1.reservations
           \/ db1.reservations[reservation_id].received
        THEN [ db |-> db1, status |-> "ReservationNotFound", result |-> << >> ]
        ELSE LET reservation == db1.reservations[reservation_id]
             IN  IF ~ cmp_cookies(cookie, reservation.cookie)
                 THEN [ db |-> db1, status |-> "InvalidCookie", result |-> << >> ]
                 ELSE [ db     |-> [db1 EXCEPT
                                      !.reservations[reservation_id].received = TRUE],
                        status |-> "ok",
                        result |-> ticket_codes(reservation.ticket_min,
                                                reservation.ticket_count) ]

\* The status is "undefined" when the loop has stored behind the storage
\* of the vector it returns.
get_tickets(db, current_time, reservation_id, cookie) ==
    LET db1 == clean_queue(db, current_time)
    IN  IF reservation_id \notin DOMAIN db1.reservations
        THEN [ db |-> db1, status |-> "ReservationNotFound", result |-> << >> ]
        ELSE LET reservation == db1.reservations[reservation_id]
             IN  IF ~ cmp_cookies(cookie, reservation.cookie)
                 THEN [ db |-> db1, status |-> "InvalidCookie", result |-> << >> ]
                 ELSE LET result == result_vector(reservation.ticket_min,
                                                  reservation.ticket_count)
                      IN  [ db     |-> [db1 EXCEPT
                                          !.reservations[reservation_id].received = TRUE],
                            status |-> IF result.behind # 0 THEN "undefined"
                                       ELSE "ok",
                            result |-> result.codes ]

(***************************************************************************)
(* Request handlers (src/ticket_server.cpp).                               *)
(***************************************************************************)
\* sizeof(Message): one uint8_t.
SIZEOF_MESSAGE == 1

get_event_size(event) == 4 + 2 + 1 + event.description

\* One pass of the body of the first loop of handle_events, for the k-th
\* event; `stopped` tells that the loop has left through its break.
count_event(events_, k, st) ==
    IF st.stopped THEN st
    ELSE LET event_size == get_event_size(events_[k])
         IN  IF st.size + event_size <= MAX_CONTENT_SIZE
             THEN [ size        |-> st.size + event_size,
                    event_count |-> st.event_count + 1,
                    stopped     |-> FALSE ]
             ELSE [ st EXCEPT !.stopped = TRUE ]

\* The first loop of handle_events over the events lo .. hi, in order: the
\* passes over the first half of the range, then those over the second.
RECURSIVE count_events(_, _, _, _)
count_events(events_, lo, hi, st) ==
    IF lo > hi THEN st
    ELSE IF lo = hi THEN count_event(events_, lo, st)
    ELSE LET mid   == (lo + hi) \div 2
             first == count_events(events_, lo, mid, st)
         IN  IF first.stopped THEN first
             ELSE count_events(events_, mid + 1, hi, first)

\* The second loop of handle_events over the events lo .. hi, in order:
\* add_event for each of them; the result is the number of bytes by which
\* they advance wrapper.current_byte.
RECURSIVE add_events(_, _, _)
add_events(events_, lo, hi) ==
    IF lo > hi THEN 0
    ELSE IF lo = hi THEN 4 + 2 + 1 + events_[lo].description
    ELSE LET mid == (lo + hi) \div 2
         IN  add_events(events_, lo, mid)
                 + add_events(events_, mid + 1, hi)

\* handle_events: the buffer of the wrapper is allocated with the size the
\* first loop found and the second loop writes every event of the
\* catalogue into it.  `listing` is the event records written and
\* current_byte the offset behind the last of them; the status is
\* "undefined" when that is behind the end of the buffer.
handle_events(db) ==
    LET counted      == count_events(db.events, 1, Len(db.events),
                                     [ size        |-> SIZEOF_MESSAGE,
                                       event_count |-> 0,
                                       stopped     |-> FALSE ])
        current_byte == 1 + add_events(db.events, 1, Len(db.events))
    IN  [ size           |-> counted.size,
          event_count    |-> counted.event_count,
          events_written |-> Len(db.events),
          current_byte   |-> current_byte,
          status         |-> IF current_byte > counted.size THEN "undefined"
                             ELSE "ok",
          listing        |-> [ k \in 1 .. Len(db.events) |->
                                 [ event_id     |-> db.events[k].event_id,
                                   ticket_count |-> db.events[k].ticket_count ] ] ]

\* Mutant of Reply: the BadRequest is built without the id of the request.
Reply_without_id(op_, id_, ticket_count_, status_, reservation_, tickets_, listing_) ==
    [ op           |-> op_,
      id           |-> id_,
      ticket_count |-> ticket_count_,
      status       |-> status_,
      reply        |-> IF status_ = "abort" THEN "none"
                       ELSE IF status_ # "ok" THEN "BAD_REQUEST"
                       ELSE IF op_ = "reserve" THEN "RESERVATION"
                       ELSE IF op_ = "redeem" THEN "none"
                       ELSE "EVENTS",
      request_id   |-> 0,
      reservation  |-> reservation_,
      tickets      |-> tickets_,
      listing      |-> listing_,
      cookie       |-> "none",
      repeated     |-> FALSE ]

\* The message a handler builds: its kind and, for BAD_REQUEST, the id
\* echoed.  handle_tickets builds no message when get_tickets succeeds: it
\* only holds the ticket list get_tickets returned.
\* The status "abort" stands for a handler that did not return because the
\* process was ended in it: no message is built.
\* `cookie` names the kind of cookie a GET_TICKETS presented and `repeated`
\* tells whether an earlier GET_TICKETS for the same id had succeeded.
Reply(op_, id_, ticket_count_, status_, reservation_, tickets_, listing_) ==
    [ op           |-> op_,
      id           |-> id_,
      ticket_count |-> ticket_count_,
      status       |-> status_,
      reply        |-> IF status_ = "abort" THEN "none"
                       ELSE IF status_ # "ok" THEN "BAD_REQUEST"
                       ELSE IF op_ = "reserve" THEN "RESERVATION"
                       ELSE IF op_ = "redeem" THEN "none"
                       ELSE "EVENTS",
      request_id   |-> IF status_ \notin { "ok", "abort" } THEN id_ ELSE 0,
      reservation  |-> reservation_,
      tickets      |-> tickets_,
      listing      |-> listing_,
      cookie       |-> "none",
      repeated     |-> FALSE ]

NoReply ==
    [ op |-> "none", id |-> 0, ticket_count |-> 0, status |-> "ok",
      reply |-> "none", request_id |-> 0, reservation |-> NoReservation,
      tickets |-> << >>, listing |-> << >>, cookie |-> "none",
      repeated |-> FALSE ]

(***************************************************************************)
(* Specification.                                                          *)
(***************************************************************************)
\* What `probe` holds after a request that a handler of the Database dealt
\* with: nothing.
NoProbe == [ op |-> "none" ]

\* The process is running: no handler has ended it.
Running == response.status # "abort"

SetDB(db) ==
    /\ timeout' = db.timeout
    /\ events' = db.events
    /\ reservations' = db.reservations
    /\ reservation_queue' = db.reservation_queue
    /\ next_reservation_id' = db.next_reservation_id
    /\ base_ticket' = db.base_ticket

\* The state after load_database: Database(timeout) and the catalogue.
InitDB(db) ==
    /\ timeout = db.timeout
    /\ events = db.events
    /\ reservations = db.reservations
    /\ reservation_queue = db.reservation_queue
    /\ next_reservation_id = db.next_reservation_id
    /\ base_ticket = db.base_ticket

Init ==
    /\ \E t \in 1 .. MaxTimeout :
          InitDB(Database(t, Catalogue(InitialTickets)))
    /\ now = 0
    /\ response = NoReply
    /\ issued = << >>
    /\ redeemed = << >>
    /\ probe = NoProbe

\* The history entry of a successful make_reservation: the returned view
\* without its cookie (which is generate_cookie(reservation_id)), and the
\* ticket_min the minter gave to the stored record.
Issued(reservation, ticket_min) ==
    [ reservation_id  |-> reservation.reservation_id,
      event_id        |-> reservation.event_id,
      ticket_count    |-> reservation.ticket_count,
      expiration_time |-> reservation.expiration_time,
      ticket_base     |-> ticket_min ]

\* GET_RESERVATION at one of `times` for one of `event_ids` and `counts`:
\* handle_reservation calls make_reservation and answers with the
\* reservation or with BAD_REQUEST(event_id).  max_reservations is no part
\* of the program: it ends the exploration after that many reservations
\* have succeeded.
ReserveWith(times, event_ids, counts, max_reservations) ==
    \E current_time \in times, event_id \in event_ids, ticket_count \in counts :
        LET db_before == DB
            r == make_reservation(db_before, current_time, event_id, ticket_count)
        IN  /\ Running
            /\ r.status = "ok" => Len(issued) < max_reservations
            /\ now' = current_time
            /\ SetDB(r.db)
            /\ response' = Reply("reserve", event_id, ticket_count,
                                 r.status, r.result, << >>, << >>)
            /\ issued' = IF r.status = "ok"
                         THEN Append(issued,
                                     Issued(r.result, db_before.base_ticket))
                         ELSE issued
            /\ UNCHANGED redeemed

\* The reservation ids a client may present: every id issued so far and the
\* next one, which is not in the store.
PresentedIds ==
    { issued[k].reservation_id : k \in 1 .. Len(issued) }
        \cup { next_reservation_id }

\* The cookies a client may present with an id: the cookie generated for it
\* ("own") and that cookie with its last byte changed ("changed").
CookieKinds == { "own", "changed" }

PresentedCookie(kind, id) ==
    IF kind = "own" THEN generate_cookie(id)
    ELSE [generate_cookie(id) EXCEPT ![COOKIE_LEN] = @ + 1]

\* handle_tickets for GET_TICKETS(reservation_id, cookie) at current_time;
\* `kind` names the kind of the cookie.  It calls get_tickets and keeps the
\* ticket list it returns in a local (response.tickets), building no
\* message for it, or builds BAD_REQUEST(reservation_id) when get_tickets
\* throws.  When get_tickets has stored behind the vector, the handler
\* returns all the same or the process is ended in it: the Database is
\* then left as get_tickets had it and no request is handled any more.
handle_tickets(current_time, reservation_id, cookie, kind) ==
    LET r == get_tickets(DB, current_time, reservation_id, cookie)
    IN  \E outcome \in Outcomes(r.status) :
            /\ Running
            /\ now' = current_time
            /\ SetDB(r.db)
            /\ response' = [ Reply("redeem", reservation_id, 0, outcome,
                                   NoReservation,
                                   IF outcome = "abort" THEN << >>
                                   ELSE r.result,
                                   << >>)
                             EXCEPT !.cookie = kind,
                                    !.repeated = reservation_id \in DOMAIN redeemed ]
            /\ redeemed' = IF outcome = "ok"
                           THEN emplace(redeemed, reservation_id, r.result)
                           ELSE redeemed
            /\ UNCHANGED issued

\* GET_TICKETS at one of `times` with a cookie of one of `kinds`.
RedeemWith(times, kinds) ==
    \E current_time \in times, reservation_id \in PresentedIds, kind \in kinds :
        handle_tickets(current_time, reservation_id,
                       PresentedCookie(kind, reservation_id), kind)

\* The clock values at which the next request can arrive: the clock never
\* runs backwards, and the program reads it only while it handles a request.
ArrivalTimes == now .. MaxTime

\* GET_EVENTS at one of `times`: handle_events reads the catalogue of a
\* const Database.  When it has written behind the end of its buffer, it
\* returns all the same or the process is ended in it.
ListEventsAt(times) ==
    \E current_time \in times :
        LET handled == handle_events(DB)
        IN  \E outcome \in Outcomes(handled.status) :
                /\ Running
                /\ now' = current_time
                /\ response' = Reply("events", 0, 0, outcome, NoReservation,
                                     << >>,
                                     IF outcome = "abort" THEN << >>
                                     ELSE handled.listing)
                /\ UNCHANGED << timeout, events, reservations,
                                reservation_queue, next_reservation_id,
                                base_ticket, issued, redeemed >>

Reserve ==
    /\ ReserveWith(ArrivalTimes, EventIds, TicketCounts, MaxReservations)
    /\ probe' = NoProbe

Redeem ==
    /\ RedeemWith(ArrivalTimes, CookieKinds)
    /\ probe' = NoProbe

ListEvents ==
    /\ ListEventsAt(ArrivalTimes)
    /\ probe' = NoProbe

Next == Reserve \/ Redeem \/ ListEvents

Spec == Init /\ [][Next]_vars

(***************************************************************************)
(* The ticket minter on its own: one event with enough tickets, block      *)
(* sizes on both sides of a base-36 digit boundary, no clock advance and    *)
(* only the right cookies, so every reservation succeeds and can be        *)
(* redeemed.                                                               *)
(***************************************************************************)
MinterCatalogue == << 120 >>

BlockSizes == { 1, 2, 35, 37 }

MaxMinted == 2          \* at most this many reservations in the minter runs

MinterInit ==
    /\ InitDB(Database(1, Catalogue(MinterCatalogue)))
    /\ now = 0
    /\ response = NoReply
    /\ issued = << >>
    /\ redeemed = << >>
    /\ probe = NoProbe

MintReserve ==
    /\ ReserveWith({now}, {0}, BlockSizes, MaxMinted)
    /\ probe' = NoProbe

MintRedeem ==
    /\ RedeemWith({now}, {"own"})
    /\ probe' = NoProbe

MinterNext == MintReserve \/ MintRedeem

SpecMinter == MinterInit /\ [][MinterNext]_vars

(***************************************************************************)
(* Requests at the limits of make_reservation: an event that holds one     *)
(* ticket more than the largest reservation, an event that holds one       *)
(* ticket, ticket counts on both sides of MAX_TICKET_COUNT, and every      *)
(* event id up to the first one outside the catalogue.                     *)
(***************************************************************************)
LimitCatalogue == << 9358, 1 >>

LimitCounts == { 0, 1, 9357, 9358 }

LimitEventIds == 0 .. Len(LimitCatalogue)

LimitInit ==
    /\ InitDB(Database(1, Catalogue(LimitCatalogue)))
    /\ now = 0
    /\ response = NoReply
    /\ issued = << >>
    /\ redeemed = << >>
    /\ probe = NoProbe

LimitReserve ==
    /\ ReserveWith({now}, LimitEventIds, LimitCounts, MaxReservations)
    /\ probe' = NoProbe

LimitNext == LimitReserve

SpecLimits == LimitInit /\ [][LimitNext]_vars

(***************************************************************************)
(* GET_TICKETS with a cookie that differs from the generated one in one    *)
(* byte, at every position, next to requests with the right cookie.        *)
(***************************************************************************)
CookiePositions == 0 .. COOKIE_LEN - 1

MaxCookieReservations == 1      \* at most this many reservations in these runs

\* The next request arrives at once or at the end of the clock's range.
CookieTimes == { now, MaxTime }

\* The ids of the reservations issued so far.
IssuedIds == { issued[k].reservation_id : k \in 1 .. Len(issued) }

\* The cookie generated for id with the byte at `position` changed.
ChangedCookie(id, position) ==
    [generate_cookie(id) EXCEPT ![position + 1] = @ + 1]

\* handle_tickets for a request that carries ChangedCookie; `probe` records
\* the position of the changed byte.
RedeemChangedAt(times, ids, positions) ==
    \E current_time \in times, reservation_id \in ids, position \in positions :
        /\ handle_tickets(current_time, reservation_id,
                          ChangedCookie(reservation_id, position), "changed")
        /\ probe' = [ op |-> "cookie", position |-> position ]

CookieReserve ==
    /\ ReserveWith(CookieTimes, {0}, {1}, MaxCookieReservations)
    /\ probe' = NoProbe

CookieRedeem ==
    /\ RedeemWith(CookieTimes, {"own"})
    /\ probe' = NoProbe

CookieRedeemChanged == RedeemChangedAt(CookieTimes, IssuedIds, CookiePositions)

CookieNext == CookieReserve \/ CookieRedeem \/ CookieRedeemChanged

SpecCookie == Init /\ [][CookieNext]_vars

(***************************************************************************)
(* The cookie generator on its own: two Reservation objects are            *)
(* constructed for a pair of ids, with different events, counts and        *)
(* deadlines.  The ids are a run of consecutive ids from the first one     *)
(* issued, long enough for every residue of every small prime, ids that    *)
(* are a multiple of 2 * 3 * 5 * 7 * 11 * 13 * 17 apart, whose cookies     *)
(* agree in their first seven bytes, the two ids around 2^31 and the last  *)
(* id get_reservation_id hands out, 2^32 - 2.                              *)
(***************************************************************************)
MaxIdOffset == 89       \* consecutive ids MIN_RESERVATION_ID + 0 .. MaxIdOffset
MaxIdStride == 3        \* strided ids MIN_RESERVATION_ID + 510510 * (1 .. MaxIdStride)

CookieIds ==
    { MIN_RESERVATION_ID + j : j \in 0 .. MaxIdOffset }
        \cup { MIN_RESERVATION_ID + 510510 * k : k \in 1 .. MaxIdStride }
        \cup { INT32_MAX, INT32_MIN, UINT32_MAX - 1 }

GeneratorInit ==
    /\ InitDB(Database(1, Catalogue(InitialTickets)))
    /\ now = 0
    /\ response = NoReply
    /\ issued = << >>
    /\ redeemed = << >>
    /\ \E id1 \in CookieIds, id2 \in CookieIds :
          /\ ~ uint32_less(id2, id1)
          /\ probe = [ op |-> "ids", reservation_id |-> id1, other_id |-> id2 ]

\* Reservation::Reservation for both ids; the constructor calls
\* generate_cookie.
MakeCookies ==
    /\ probe.op = "ids"
    /\ probe' = [ op             |-> "cookies",
                  reservation_id |-> probe.reservation_id,
                  other_id       |-> probe.other_id,
                  cookie         |-> Reservation(probe.reservation_id,
                                                 0, 1, 0).cookie,
                  other_cookie   |-> Reservation(probe.other_id,
                                                 1, 2, 5).cookie ]
    /\ UNCHANGED << timeout, events, reservations, reservation_queue,
                    next_reservation_id, base_ticket, now, response, issued,
                    redeemed >>

SpecGenerator == GeneratorInit /\ [][MakeCookies]_vars

(***************************************************************************)
(* The EVENTS reply of handle_events on its own.  A catalogue is given by  *)
(* the lengths of its descriptions: `count` events with descriptions of    *)
(* one length and a last event with a description of another, with counts  *)
(* on both sides of what fits into MAX_CONTENT_SIZE bytes.                 *)
(***************************************************************************)
EncoderCounts == { 0, 1, 249, 250, 251, 751, 752, 753 }

EncoderLengths == { 1, 80, 255 }

EncoderInit ==
    /\ \E count \in EncoderCounts, length \in EncoderLengths,
          last \in EncoderLengths :
          /\ InitDB(Database(1, [ k \in 1 .. count + 1 |->
                                    [ description  |-> IF k <= count THEN length
                                                       ELSE last,
                                      ticket_count |-> 1 ] ]))
          /\ probe = [ op |-> "catalogue" ]
    /\ now = 0
    /\ response = NoReply
    /\ issued = << >>
    /\ redeemed = << >>

\* GET_EVENTS on the catalogue; `probe` records what handle_events
\* computed and what came of it.
EncodeEvents ==
    /\ probe.op = "catalogue"
    /\ ListEventsAt({ now })
    /\ LET handled == handle_events(DB)
       IN  probe' = [ op             |-> "events",
                      descriptions   |-> [ k \in 1 .. Len(events) |->
                                             events[k].description ],
                      size           |-> handled.size,
                      event_count    |-> handled.event_count,
                      events_written |-> handled.events_written,
                      current_byte   |-> handled.current_byte,
                      outcome        |-> IF response'.status = "abort"
                                         THEN "abort"
                                         ELSE IF handled.status = "undefined"
                                         THEN "overrun"
                                         ELSE "written" ]

SpecEncoder == EncoderInit /\ [][EncodeEvents]_vars

(***************************************************************************)
(* The request loop.  A datagram is given by its length and its first      *)
(* byte; read_message reads at most MAX_REQUEST_SIZE bytes of it.  The     *)
(* lengths are those on both sides of each request layout.                 *)
(***************************************************************************)
EVENTS_ID == 1
RESERVATION_ID == 3
TICKETS_ID == 5
MAX_REQUEST_SIZE == 53

DatagramLengths == { 0, 1, 2, 6, 7, 8, 52, MAX_REQUEST_SIZE }

DatagramIds == { 0, 1, 2, 3, 4, 5, 6, 255 }

\* Mutant of handle_request: the handler is chosen by the message id alone.
handle_request_by_id_only(read_length, message_id) ==
    IF message_id = EVENTS_ID THEN "handle_events"
    ELSE IF message_id = RESERVATION_ID THEN "handle_reservation"
    ELSE IF message_id = TICKETS_ID THEN "handle_tickets"
    ELSE "dropped"

\* handle_request: the handler a datagram of read_length bytes that starts
\* with message_id is passed to, or "dropped".  GET_EVENTS is one byte,
\* GET_RESERVATION 1 + 4 + 2 bytes, GET_TICKETS 1 + 4 + COOKIE_LEN bytes.
handle_request(read_length, message_id) ==
    IF message_id = EVENTS_ID
    THEN IF read_length = 1 THEN "handle_events" ELSE "dropped"
    ELSE IF message_id = RESERVATION_ID
    THEN IF read_length >= 1 + 4 + 2 THEN "handle_reservation" ELSE "dropped"
    ELSE IF message_id = TICKETS_ID
    THEN IF read_length >= 1 + 4 + COOKIE_LEN THEN "handle_tickets" ELSE "dropped"
    ELSE "dropped"

\* The body of the loop of run: an empty message is ignored, any other is
\* passed to handle_request.
run(read_length, message_id) ==
    IF read_length = 0 THEN "ignored"
    ELSE handle_request(read_length, message_id)

\* One pass of the loop of run; `probe` records the datagram.
ServeDatagram ==
    \E read_length \in DatagramLengths, message_id \in DatagramIds :
        LET route == run(read_length, message_id)
        IN  /\ probe' = [ op          |-> "datagram",
                          read_length |-> read_length,
                          message_id  |-> message_id ]
            /\ \/ /\ route \in { "ignored", "dropped" }
                  /\ response' = NoReply
                  /\ UNCHANGED << timeout, events, reservations,
                                  reservation_queue, next_reservation_id,
                                  base_ticket, now, issued, redeemed >>
               \/ /\ route = "handle_events"
                  /\ ListEventsAt(CookieTimes)
               \/ /\ route = "handle_reservation"
                  /\ ReserveWith(CookieTimes, EventIds, {1},
                                 MaxCookieReservations)
               \/ /\ route = "handle_tickets"
                  /\ RedeemWith(CookieTimes, CookieKinds)

SpecDatagram == Init /\ [][ServeDatagram]_vars

(***************************************************************************)
(* cmp_cookies on its own: the stored cookie of a reservation compared     *)
(* with a presented cookie that is the same or differs in one byte.        *)
(***************************************************************************)
CompareIds == { MIN_RESERVATION_ID, MIN_RESERVATION_ID + 1 }

\* Position COOKIE_LEN stands for the presented cookie that differs nowhere.
ComparePositions == 0 .. COOKIE_LEN

ComparedCookie(id, position) ==
    IF position = COOKIE_LEN THEN generate_cookie(id)
    ELSE ChangedCookie(id, position)

CompareInit ==
    /\ InitDB(Database(1, Catalogue(InitialTickets)))
    /\ now = 0
    /\ response = NoReply
    /\ issued = << >>
    /\ redeemed = << >>
    /\ \E id \in CompareIds, position \in ComparePositions :
          probe = [ op |-> "presented", reservation_id |-> id,
                    position |-> position ]

\* cmp_cookies(cookie, reservation.cookie) as get_tickets calls it.
CompareCookies ==
    /\ probe.op = "presented"
    /\ LET presented == ComparedCookie(probe.reservation_id, probe.position)
           stored    == generate_cookie(probe.reservation_id)
       IN  probe' = [ op             |-> "compared",
                      reservation_id |-> probe.reservation_id,
                      position       |-> probe.position,
                      equal          |-> cmp_cookies(presented, stored),
                      inspected      |-> cmp_cookies_inspected(presented,
                                                               stored) ]
    /\ UNCHANGED << timeout, events, reservations, reservation_queue,
                    next_reservation_id, base_ticket, now, response, issued,
                    redeemed >>

SpecCompare == CompareInit /\ [][CompareCookies]_vars

(***************************************************************************)
(* The server after so many reservations that next_reservation_id is       *)
(* WrapDistance ids below the largest value of its type.  All earlier      *)
(* reservations have expired and have been swept, so the store and the     *)
(* queue are empty and the events have all their tickets.                  *)
(***************************************************************************)
WrapDistance == 2

\* The reservations made before took one ticket each.  WrapBaseTicketBefore
\* is the ticket counter after the reservations with the ids
\* MIN_RESERVATION_ID .. 2^32 - 2 - WrapHeadroom, that is after 4284967279
\* calls of increase_ticket(base_ticket, 1) from "0000000": "VWP5VY1".  The
\* WrapHeadroom - WrapDistance reservations after them are added here.
WrapHeadroom == 16

WrapBaseTicketBefore == << 86, 87, 80, 53, 86, 89, 49 >>

RECURSIVE increase_times(_, _, _)
\* base_ticket after `times` calls of generate_tickets with ticket_count
\* `count`, one call after the other: every call's counter is complete (its characters are codes, never
\* negative) before the next call starts from it.
increase_times(base, count, times) ==
    IF times = 0 THEN base
    ELSE LET increased == TicketOf(increase_ticket(TicketMemory(base, 0),
                                                   count))
         IN  IF increased[1] >= 0
             THEN increase_times(increased, count, times - 1)
             ELSE increased

WrapBaseTicket ==
    increase_times(WrapBaseTicketBefore, 1, WrapHeadroom - WrapDistance)

WrapCounts == { 0, 1, MAX_TICKET_COUNT + 1 }

\* The next request arrives at once or at the end of the clock's range.
WrapTimes == { now, MaxTime }

WrapInit ==
    /\ \E t \in 1 .. MaxTimeout :
          InitDB([ Database(t, Catalogue(InitialTickets)) EXCEPT
                     !.next_reservation_id = UINT32_MAX - WrapDistance,
                     !.base_ticket = WrapBaseTicket ])
    /\ now = 0
    /\ response = NoReply
    /\ issued = << >>
    /\ redeemed = << >>
    /\ probe = NoProbe

WrapReserve ==
    /\ ReserveWith(WrapTimes, EventIds, WrapCounts, WrapDistance + 1)
    /\ probe' = NoProbe

WrapRedeem ==
    /\ RedeemWith(WrapTimes, { "own" })
    /\ probe' = NoProbe

WrapNext == WrapReserve \/ WrapRedeem

SpecWrap == WrapInit /\ [][WrapNext]_vars

(***************************************************************************)
(* The server after the reservations that bring the ticket counter to the  *)
(* end of its range: with the catalogue of the limits and timeout 1,       *)
(* 8614207 reservations of 9357 tickets and one of 5307, each of them      *)
(* expired and swept by a get_tickets before the next.  The store and the  *)
(* queue are empty, the events have all their tickets and base_ticket is   *)
(* "U[[[[[[": the 7th code counted from it is the last one before a carry  *)
(* leaves the last position.  The clock is counted from the last of those  *)
(* requests.  80603140206 tickets have been counted by then, more than     *)
(* the 36^7 = 78364164096 numerals of seven digits: the counter is past    *)
(* "ZZZZZZZ", where the minter is not required to work.  The runs show     *)
(* what the code does there: a get_tickets whose last code carries out of  *)
(* the last position stores behind the vector it builds.                   *)
(***************************************************************************)
OverrunIssuedBefore == 8614208

OverrunBaseTicket == << 85, 91, 91, 91, 91, 91, 91 >>

\* Reservations that end before, at and behind the carry.
OverrunCounts == { 1, 7, 8 }

OverrunInit ==
    /\ InitDB([ Database(1, Catalogue(LimitCatalogue)) EXCEPT
                 !.next_reservation_id = MIN_RESERVATION_ID + OverrunIssuedBefore,
                 !.base_ticket = OverrunBaseTicket ])
    /\ now = 0
    /\ response = NoReply
    /\ issued = << >>
    /\ redeemed = << >>
    /\ probe = NoProbe

OverrunReserve ==
    /\ ReserveWith(WrapTimes, {0}, OverrunCounts, MaxReservations)
    /\ probe' = NoProbe

OverrunRedeem ==
    /\ RedeemWith(WrapTimes, { "own" })
    /\ probe' = NoProbe

OverrunNext == OverrunReserve \/ OverrunRedeem

SpecOverrun == OverrunInit /\ [][OverrunNext]_vars

(***************************************************************************)
(* NetworkWriter and NetworkReader (src/src/networking.h).  A number is    *)
(* given by the bytes of its object representation on the little-endian    *)
(* host, least significant byte first.                                     *)
(*                                                                         *)
(* std::size_t has 64 bits.  A std::size_t value is written as the int64_t *)
(* of the same 64 bits: a size or an offset is itself and a difference     *)
(* that wraps around, 2^64 - k, is written as -k.  The sizes, offsets and  *)
(* lengths of the runs are far below 2^31, so are the values k, and the    *)
(* operators below are the std::size_t operations on values written so.    *)
(***************************************************************************)
size_t_add(a, b) == a + b

size_t_sub(a, b) == a - b

\* a < b in std::size_t.
size_t_less(a, b) == IF (a < 0) = (b < 0) THEN a < b ELSE b < 0

\* The value of a byte of new char[n] that has not been written.
Indeterminate == 0 - 1

Reverse(bytes) == [ k \in 1 .. Len(bytes) |-> bytes[Len(bytes) + 1 - k] ]

\* htobe16, htobe32, htobe64 on the object representation; a 1-byte number
\* is left as it is.
htobe(number) == Reverse(number)

\* NetworkWriter::NetworkWriter.  `outside` is not a member: it counts the
\* bytes the writer has stored past the end of m_buffer.
NetworkWriter(buffer_size) ==
    [ m_buffer      |-> [ k \in 1 .. buffer_size |-> Indeterminate ],
      m_offset      |-> 0,
      m_buffer_size |-> buffer_size,
      outside       |-> 0 ]

\* m_buffer_size - m_offset in std::size_t.
writer_room(w) == size_t_sub(w.m_buffer_size, w.m_offset)

\* std::memcpy(&m_buffer[m_offset], bytes, length) and
\* bytes.copy(&m_buffer[m_offset], length): the bytes that fall into the
\* buffer are stored, those behind its end are counted in `outside`.
copy_to_buffer(w, bytes, length) ==
    [ w EXCEPT
        !.m_buffer = [ k \in 1 .. w.m_buffer_size |->
                         IF k - 1 >= w.m_offset /\ k - 1 < w.m_offset + length
                         THEN bytes[k - w.m_offset]
                         ELSE w.m_buffer[k] ],
        !.outside  = @ + Cardinality({ j \in 1 .. length :
                                          w.m_offset + j > w.m_buffer_size }) ]

\* The status of a call that has copied: "undefined" when it has stored
\* behind the end of m_buffer.
copied_status(before, after) ==
    IF after.outside > before.outside THEN "undefined" ELSE "ok"

\* void write_to_buffer(char const *bytes, std::size_t length)
write_to_buffer_chars(w, bytes, length) ==
    IF size_t_less(writer_room(w), length)
    THEN [ w |-> w, status |-> "BufferOverflow" ]
    ELSE LET copied == copy_to_buffer(w, bytes, length)
         IN  [ w      |-> [ copied EXCEPT
                              !.m_offset = size_t_add(@, length) ],
               status |-> copied_status(w, copied) ]

\* void write_to_buffer(const std::string &bytes, std::size_t length), for
\* bytes.length() >= length: length bytes are copied and m_offset grows by
\* bytes.length().
write_to_buffer_string(w, bytes, length) ==
    IF size_t_less(writer_room(w), length)
    THEN [ w |-> w, status |-> "BufferOverflow" ]
    ELSE LET copied == copy_to_buffer(w, bytes, length)
         IN  [ w      |-> [ copied EXCEPT
                              !.m_offset = size_t_add(@, Len(bytes)) ],
               status |-> copied_status(w, copied) ]

\* void write_to_buffer(const std::string &bytes)
write_to_buffer(w, bytes) == write_to_buffer_string(w, bytes, Len(bytes))

\* The sizes the switches of add_number and read_number have a case for.
NumberWidths == { 1, 2, 4, 8 }

\* sizeof(long double), and sizeof(__int128): a type the requires clause of
\* add_number and read_number admits and their switches have no case for.
SIZEOF_LONG_DOUBLE == 16

\* sizeof(T) of the types the runs call add_number and read_number with.
TypeSizes == NumberWidths \cup { SIZEOF_LONG_DOUBLE }

\* NetworkWriter::add_number<T> for sizeof(T) = Len(number): the case of
\* the switch that runs for that size, which throws InvalidType for a size
\* other than 1, 2, 4 and 8, then write_to_buffer.
add_number(w, number) ==
    IF Len(number) \notin NumberWidths
    THEN [ w |-> w, status |-> "InvalidType" ]
    ELSE write_to_buffer_chars(w,
                               IF Len(number) = 1 THEN number
                               ELSE htobe(number),
                               Len(number))

\* NetworkReader::NetworkReader
NetworkReader(buffer, size) ==
    [ m_buffer |-> buffer, m_offset |-> 0, m_buffer_size |-> size ]

\* void read_bytes(char *bytes, std::size_t length)
read_bytes(r, length) ==
    IF size_t_less(size_t_sub(r.m_buffer_size, r.m_offset), length)
    THEN [ r |-> r, status |-> "BufferOverflow", bytes |-> << >> ]
    ELSE [ r      |-> [ r EXCEPT !.m_offset = size_t_add(@, length) ],
           status |-> "ok",
           bytes  |-> [ k \in 1 .. length |-> r.m_buffer[r.m_offset + k] ] ]

\* void read_bytes(std::string &bytes, std::size_t length): the bytes read
\* are appended to the string.
read_bytes_string(r, bytes, length) ==
    IF size_t_less(size_t_sub(r.m_buffer_size, r.m_offset), length)
    THEN [ r |-> r, status |-> "BufferOverflow", bytes |-> bytes ]
    ELSE [ r      |-> [ r EXCEPT !.m_offset = size_t_add(@, length) ],
           status |-> "ok",
           bytes  |-> bytes \o [ k \in 1 .. length |->
                                   r.m_buffer[r.m_offset + k] ] ]

\* void read_bytes(std::string &bytes): all the bytes not read yet.
read_bytes_rest(r, bytes) ==
    read_bytes_string(r, bytes, size_t_sub(r.m_buffer_size, r.m_offset))

\* NetworkReader::read_number<T> for sizeof(T) = width.  The first switch
\* throws InvalidType for a size other than 1, 2, 4 and 8.  The statements
\* that follow it are ill-formed: get_bytes is declared nowhere, and the
\* case of every size but 1 hands *bytes, one char, to a std::bit_cast to
\* a type of 2, 4 or 8 bytes.  The compiler rejects them, so the text gives
\* a call that gets there no bytes read, no offset and no number: the
\* status is "ill-formed", and the reader is the one the call was made on.
read_number(r, width) ==
    IF width \notin NumberWidths
    THEN [ r |-> r, status |-> "InvalidType", number |-> << >> ]
    ELSE [ r |-> r, status |-> "ill-formed", number |-> << >> ]

\* The bytes the numbers of the runs are made of.
NumberBytes == { 0, 1, 255 }

\* All sequences of n bytes of NumberBytes.
RECURSIVE NumbersOfWidth(_)
NumbersOfWidth(n) ==
    IF n = 0 THEN { << >> }
    ELSE { Append(number, b) : number \in NumbersOfWidth(n - 1), b \in NumberBytes }

CodecBufferSize == 8

CodecInit ==
    /\ InitDB(Database(1, Catalogue(InitialTickets)))
    /\ now = 0
    /\ response = NoReply
    /\ issued = << >>
    /\ redeemed = << >>
    /\ \E number \in UNION { NumbersOfWidth(width) : width \in NumberWidths }
                        \cup { [ k \in 1 .. SIZEOF_LONG_DOUBLE |-> 1 ] } :
          probe = [ op |-> "number", number |-> number ]

\* add_number<T>(number) on a new NetworkWriter.
WriteNumber ==
    /\ probe.op = "number"
    /\ LET r == add_number(NetworkWriter(CodecBufferSize), probe.number)
       IN  probe' = [ op     |-> "written",
                      number |-> probe.number,
                      writer |-> r.w,
                      status |-> r.status ]
    /\ UNCHANGED << timeout, events, reservations, reservation_queue,
                    next_reservation_id, base_ticket, now, response, issued,
                    redeemed >>

\* The NetworkReader of the state: a new one over the bytes the writer
\* holds, until a call has been made on it.
CodecReader ==
    IF probe.op = "written"
    THEN NetworkReader(probe.writer.m_buffer, probe.writer.m_offset)
    ELSE probe.reader

\* The std::string the calls of read_bytes append to, empty at first.
CodecString == IF probe.op = "written" THEN << >> ELSE probe.string

\* The number of read_bytes calls made on the reader so far.
CodecReads == IF probe.op = "written" THEN 0 ELSE probe.reads

MaxReads == 2           \* at most this many read_bytes calls on the reader

\* The lengths asked of the reader: up to one more than it has left.
ReadLengths ==
    0 .. size_t_sub(CodecReader.m_buffer_size, CodecReader.m_offset) + 1

\* The probe after the call `call` on the reader, which asked for `length`
\* bytes and left the reader r with the given status: `read` is what the
\* destination of the call holds, `string` the std::string, `reads` the
\* number of read_bytes calls made.
Read(op, call, length, r, status, read, string, reads) ==
    probe' = [ op          |-> op,
               number      |-> probe.number,
               writer      |-> probe.writer,
               reader      |-> r,
               call        |-> call,
               length      |-> length,
               status      |-> status,
               read        |-> read,
               string      |-> string,
               read_length |-> r.m_offset,
               reads       |-> reads ]

\* read_number<T>() on the reader.
ReadNumber ==
    /\ probe.op \in { "written", "bytes" }
    /\ LET r == read_number(CodecReader, Len(probe.number))
       IN  Read("read", "read_number", Len(probe.number), r.r, r.status,
                r.number, CodecString, CodecReads)
    /\ UNCHANGED << timeout, events, reservations, reservation_queue,
                    next_reservation_id, base_ticket, now, response, issued,
                    redeemed >>

\* One more call of read_bytes may be made on the reader.
MayReadBytes ==
    /\ probe.op \in { "written", "bytes" }
    /\ CodecReads < MaxReads

\* read_bytes(bytes, length) with a char array.
ReadBytesChars ==
    /\ MayReadBytes
    /\ \E length \in ReadLengths :
          LET r == read_bytes(CodecReader, length)
          IN  Read("bytes", "chars", length, r.r, r.status, r.bytes,
                   CodecString, CodecReads + 1)
    /\ UNCHANGED << timeout, events, reservations, reservation_queue,
                    next_reservation_id, base_ticket, now, response, issued,
                    redeemed >>

\* read_bytes(bytes, length) with the std::string.
ReadBytesString ==
    /\ MayReadBytes
    /\ \E length \in ReadLengths :
          LET r == read_bytes_string(CodecReader, CodecString, length)
          IN  Read("bytes", "string", length, r.r, r.status, r.bytes,
                   r.bytes, CodecReads + 1)
    /\ UNCHANGED << timeout, events, reservations, reservation_queue,
                    next_reservation_id, base_ticket, now, response, issued,
                    redeemed >>

\* read_bytes(bytes) with the std::string.
ReadBytesRest ==
    /\ MayReadBytes
    /\ LET r == read_bytes_rest(CodecReader, CodecString)
       IN  Read("bytes", "rest",
                size_t_sub(CodecReader.m_buffer_size, CodecReader.m_offset),
                r.r, r.status, r.bytes, r.bytes, CodecReads + 1)
    /\ UNCHANGED << timeout, events, reservations, reservation_queue,
                    next_reservation_id, base_ticket, now, response, issued,
                    redeemed >>

CodecNext ==
    \/ WriteNumber
    \/ ReadNumber
    \/ ReadBytesChars
    \/ ReadBytesString
    \/ ReadBytesRest

SpecCodec == CodecInit /\ [][CodecNext]_vars

\* A NetworkWriter and a sequence of calls of its writing members.  `probe`
\* holds the writer, the call made last with the length it asked to write
\* and m_offset before it, and the number of bytes copied so far.
MaxCalls == 3           \* at most this many calls on the writer
MaxStringLength == 3    \* std::string and char arguments of 0 .. this length

\* The bytes handed to the writer: n bytes of value 1.
BytesOfLength(n) == [ k \in 1 .. n |-> 1 ]

WriterInit ==
    /\ InitDB(Database(1, Catalogue(InitialTickets)))
    /\ now = 0
    /\ response = NoReply
    /\ issued = << >>
    /\ redeemed = << >>
    /\ probe = [ op |-> "writer", writer |-> NetworkWriter(CodecBufferSize),
                 call |-> "NetworkWriter", status |-> "ok", length |-> 0,
                 before |-> 0, copied |-> 0, calls |-> 0 ]

\* The probe after a call that asked for `length` bytes and came to r.  A
\* call that has stored behind the buffer returns all the same, or the
\* process is ended in it (status "abort") and no call follows.
Called(call, length, r) ==
    /\ probe.op = "writer"
    /\ probe.calls < MaxCalls
    /\ probe.status # "abort"
    /\ \E outcome \in Outcomes(r.status) :
          probe' = [ op     |-> "writer",
                     writer |-> r.w,
                     call   |-> call,
                     status |-> outcome,
                     length |-> length,
                     before |-> probe.writer.m_offset,
                     copied |-> IF outcome = "ok" THEN probe.copied + length
                                ELSE probe.copied,
                     calls  |-> probe.calls + 1 ]

WriterAddNumber ==
    /\ \E width \in TypeSizes :
          Called("add_number", width,
                 add_number(probe.writer, BytesOfLength(width)))
    /\ UNCHANGED << timeout, events, reservations, reservation_queue,
                    next_reservation_id, base_ticket, now, response, issued,
                    redeemed >>

WriterWriteChars ==
    /\ \E length \in 0 .. MaxStringLength :
          Called("chars", length,
                 write_to_buffer_chars(probe.writer, BytesOfLength(length),
                                       length))
    /\ UNCHANGED << timeout, events, reservations, reservation_queue,
                    next_reservation_id, base_ticket, now, response, issued,
                    redeemed >>

WriterWritePrefix ==
    /\ \E size \in 0 .. MaxStringLength : \E length \in 0 .. size :
          Called("prefix", length,
                 write_to_buffer_string(probe.writer, BytesOfLength(size),
                                        length))
    /\ UNCHANGED << timeout, events, reservations, reservation_queue,
                    next_reservation_id, base_ticket, now, response, issued,
                    redeemed >>

WriterWriteString ==
    /\ \E size \in 0 .. MaxStringLength :
          Called("string", size,
                 write_to_buffer(probe.writer, BytesOfLength(size)))
    /\ UNCHANGED << timeout, events, reservations, reservation_queue,
                    next_reservation_id, base_ticket, now, response, issued,
                    redeemed >>

WriterNext ==
    \/ WriterAddNumber
    \/ WriterWriteChars
    \/ WriterWritePrefix
    \/ WriterWriteString

SpecWriter == WriterInit /\ [][WriterNext]_vars

(***************************************************************************)
(* Reference definitions the properties are stated with.                   *)
(***************************************************************************)
RECURSIVE SumOver(_, _)
\* The sum of f[x] over the finite set S.
SumOver(f, S) ==
    IF S = {} THEN 0
    ELSE LET x == CHOOSE y \in S : TRUE
         IN  f[x] + SumOver(f, S \ {x})

IssuedIndex == 1 .. Len(issued)

\* The tickets of event e that the store holds, redeemed or not.
HeldInStore(e, received_) ==
    LET ids == { id \in DOMAIN reservations :
                    /\ reservations[id].event_id = e
                    /\ reservations[id].received = received_ }
    IN  SumOver([ id \in ids |-> reservations[id].ticket_count ], ids)

WasRedeemed(k) == issued[k].reservation_id \in DOMAIN redeemed

\* The tickets of event e that are rightfully unavailable at time t: those
\* of redeemed reservations and of reservations whose deadline has not passed.
RightfullyHeld(e, t) ==
    LET ks == { k \in IssuedIndex :
                   /\ issued[k].event_id = e
                   /\ (WasRedeemed(k) \/ issued[k].expiration_time >= t) }
    IN  SumOver([ k \in ks |-> issued[k].ticket_count ], ks)

\* The tickets of event e held by reservations that were redeemed.
HeldByRedeemed(e) ==
    LET ks == { k \in IssuedIndex : issued[k].event_id = e /\ WasRedeemed(k) }
    IN  SumOver([ k \in ks |-> issued[k].ticket_count ], ks)

\* The alphabet of ticket codes: '0'..'9' and 'A'..'Z'.
Alphabet == (CH_0 .. CH_9) \cup (CH_A .. CH_Z)

IsTicketCode(t) ==
    /\ DOMAIN t = 1 .. 7
    /\ \A k \in 1 .. 7 : t[k] \in Alphabet

\* Reference base-36 arithmetic on 7-digit numerals, position 0 the least
\* significant digit.
RefDigit(c) == IF c <= CH_9 THEN c - CH_0 ELSE c - CH_A + 10

RefChar(d) == IF d < 10 THEN CH_0 + d ELSE CH_A + (d - 10)

RECURSIVE RefValueFrom(_, _)
RefValueFrom(t, k) ==
    IF k > 7 THEN 0 ELSE RefDigit(t[k]) + 36 * RefValueFrom(t, k + 1)

RefValue(t) == RefValueFrom(t, 1)

RECURSIVE RefShift(_, _)
RefShift(v, k) == IF k = 0 THEN v ELSE RefShift(v \div 36, k - 1)

RefNumeral(v) == [ k \in 1 .. 7 |-> RefChar(RefShift(v, k - 1) % 36) ]

RefAdd(t, n) == RefNumeral(RefValue(t) + n)

ZeroTicket == [ k \in 1 .. 7 |-> CH_0 ]

(***************************************************************************)
(* Properties.                                                             *)
(***************************************************************************)

\* C1: ticket conservation.  For every event, the available count plus the
\* ticket counts of the unredeemed reservations in the store plus those of
\* the redeemed reservations in the store is the count the event was added
\* with, and the available count stays within 0 .. that count.
C1_TicketConservation ==
    \A k \in 1 .. Len(events) :
        /\ events[k].ticket_count + HeldInStore(k - 1, FALSE)
               + HeldInStore(k - 1, TRUE) = InitialTickets[k]
        /\ events[k].ticket_count \in 0 .. InitialTickets[k]

\* C1 witness: a reservation was made and reclaimed by a sweep, and another
\* one was redeemed and is in the store.
C1_Witness ==
    /\ \E k \in IssuedIndex : issued[k].reservation_id \notin DOMAIN reservations
    /\ \E id \in DOMAIN reservations : reservations[id].received

\* C2 (as claimed): after every make_reservation or get_tickets handled at
\* time now, successful or not, no never-redeemed reservation whose deadline
\* is before now is left in the store, and every event's available count
\* has its tickets back.
C2_SweepOnEveryOperation ==
    response.op \in { "reserve", "redeem" } =>
        /\ \A k \in IssuedIndex :
              (~ WasRedeemed(k) /\ issued[k].expiration_time < now)
                  => issued[k].reservation_id \notin DOMAIN reservations
        /\ \A e \in 1 .. Len(events) :
              events[e].ticket_count = InitialTickets[e] - RightfullyHeld(e - 1, now)

\* C3 (as claimed): the counts of a GET_EVENTS listing produced at time now,
\* and the count a TicketShortage answer at time now is based on, include
\* the tickets of every unredeemed reservation whose deadline is before now.
C3_NoStaleAvailability ==
    /\ response.op = "events" =>
          \A e \in 1 .. Len(response.listing) :
              response.listing[e].ticket_count
                  = InitialTickets[e] - RightfullyHeld(e - 1, now)
    /\ (response.op = "reserve" /\ response.status = "TicketShortage") =>
          InitialTickets[response.id + 1] - RightfullyHeld(response.id, now)
              < response.ticket_count

\* C4 (as claimed): every value of base_ticket and every code returned by
\* get_tickets is 7 characters of the alphabet '0'..'9', 'A'..'Z'.
C4_CodesInAlphabet ==
    /\ IsTicketCode(base_ticket)
    /\ \A i \in 1 .. Len(response.tickets) : IsTicketCode(response.tickets[i])

\* C5: any two codes returned by get_tickets, for two reservations or at two
\* positions of one list, are different.
C5_UniqueCodes ==
    \A id1 \in DOMAIN redeemed, id2 \in DOMAIN redeemed :
        \A i \in 1 .. Len(redeemed[id1]), j \in 1 .. Len(redeemed[id2]) :
            (id1 # id2 \/ i # j) => redeemed[id1][i] # redeemed[id2][j]

\* C5 witness: two reservations were redeemed, one of them for several codes.
C5_Witness ==
    /\ Cardinality(DOMAIN redeemed) >= 2
    /\ \E id \in DOMAIN redeemed : Len(redeemed[id]) >= 2

\* C6 (as claimed): the counter starts at "0000000"; a reservation of n
\* tickets that is given base b leaves the counter at b + n, the base-36
\* numeral the next reservation is given.
C6_MinterContract ==
    /\ issued = << >> => base_ticket = ZeroTicket
    /\ \A k \in IssuedIndex :
          /\ k = 1 => issued[k].ticket_base = ZeroTicket
          /\ k > 1 => issued[k].ticket_base =
                          RefAdd(issued[k - 1].ticket_base, issued[k - 1].ticket_count)
          /\ k = Len(issued) => base_ticket =
                          RefAdd(issued[k].ticket_base, issued[k].ticket_count)

\* C7 (as claimed): a successful get_tickets for a reservation of n tickets
\* with base b returns the n codes b, b + 1, ..., b + n - 1 in order.
C7_RedeemedCodes ==
    (response.op = "redeem" /\ response.status = "ok") =>
        \E k \in IssuedIndex :
            /\ issued[k].reservation_id = response.id
            /\ response.tickets =
                   [ i \in 1 .. issued[k].ticket_count |->
                       RefAdd(issued[k].ticket_base, i - 1) ]

\* C8: a get_tickets that presents the id and the cookie of an issued
\* reservation no later than its deadline succeeds, every time, and returns
\* the ticket list the first successful call for that id returned.
C8_IdempotentRedemption ==
    (response.op = "redeem" /\ response.cookie = "own") =>
        \A k \in IssuedIndex :
            (issued[k].reservation_id = response.id
                 /\ now <= issued[k].expiration_time)
            => /\ response.status = "ok"
               /\ response.id \in DOMAIN redeemed
               /\ response.tickets = redeemed[response.id]
               /\ Len(response.tickets) = issued[k].ticket_count

\* C8 witness: a get_tickets succeeded for a reservation that an earlier
\* get_tickets had already redeemed.
C8_Witness ==
    /\ response.op = "redeem"
    /\ response.status = "ok"
    /\ response.repeated
    /\ \E k \in IssuedIndex :
          issued[k].reservation_id = response.id /\ now <= issued[k].expiration_time

\* C9: a reservation for which get_tickets has succeeded stays in the store,
\* marked received, and its tickets stay subtracted from its event.
C9_RedeemedNeverReclaimed ==
    /\ \A id \in DOMAIN redeemed :
          id \in DOMAIN reservations /\ reservations[id].received
    /\ \A e \in 1 .. Len(events) :
          events[e].ticket_count + HeldByRedeemed(e - 1) <= InitialTickets[e]

\* C9 witness: a redeemed reservation whose deadline has passed and whose
\* expiry-queue entry a later sweep has popped.
C9_Witness ==
    \E k \in IssuedIndex :
        /\ WasRedeemed(k)
        /\ issued[k].expiration_time < now
        /\ \A q \in 1 .. Len(reservation_queue) :
              reservation_queue[q].reservation_id # issued[k].reservation_id

\* C10: the k-th successful make_reservation returns id 10^7 + k - 1, and
\* the next id is 10^7 plus the number of successful reservations, whatever
\* number of requests failed.
C10_SequentialIds ==
    /\ \A k \in IssuedIndex : issued[k].reservation_id = 10000000 + (k - 1)
    /\ \A k \in IssuedIndex : issued[k].reservation_id >= 10000000
    /\ next_reservation_id = 10000000 + Len(issued)

\* C10 witness: two reservations were issued and the last request was a
\* reservation that failed.
C10_Witness ==
    /\ Len(issued) >= 2
    /\ response.op = "reserve"
    /\ response.status # "ok"

\* C11: a successful make_reservation(event_id, n) handled at clock value t
\* takes exactly n from the event's available count and leaves the other
\* events as they were; the view it returns has the requested event_id and
\* ticket_count, expiration_time = t + timeout and the cookie of the record
\* stored under its id; the store gains that one record and the expiry
\* queue one entry with the same expiration_time.
C11_ReservationEffects ==
    [][ (response'.op = "reserve" /\ response'.status = "ok"
             /\ Len(issued') = Len(issued) + 1)
        => LET e  == response'.id
               n  == response'.ticket_count
               r  == response'.reservation
               id == r.reservation_id
           IN  /\ Len(events') = Len(events)
               /\ events'[e + 1].ticket_count = events[e + 1].ticket_count - n
               /\ \A k \in 1 .. Len(events) : k # e + 1 => events'[k] = events[k]
               /\ r.event_id = e
               /\ r.ticket_count = n
               /\ r.expiration_time = now' + timeout
               /\ id \notin DOMAIN reservations
               /\ DOMAIN reservations' = DOMAIN reservations \cup { id }
               /\ \A other \in DOMAIN reservations :
                      reservations'[other] = reservations[other]
               /\ reservations'[id].event_id = e
               /\ reservations'[id].ticket_count = n
               /\ reservations'[id].received = FALSE
               /\ r.cookie = reservations'[id].cookie
               /\ reservation_queue' =
                      Append(reservation_queue,
                             [ reservation_id  |-> id,
                               expiration_time |-> now' + timeout ])
      ]_vars

\* C11 witness: a second reservation succeeded at a later clock value, for
\* another event than the first, and its record and queue entry are there.
C11_Witness ==
    /\ response.op = "reserve"
    /\ response.status = "ok"
    /\ Len(issued) = 2
    /\ issued[1].event_id # issued[2].event_id
    /\ now > 0
    /\ response.reservation.expiration_time = now + timeout
    /\ response.reservation.reservation_id \in DOMAIN reservations
    /\ reservation_queue # << >>
    /\ reservation_queue[Len(reservation_queue)].reservation_id
           = response.reservation.reservation_id

\* The error make_reservation(event_id, n) is to report on a catalogue evs,
\* or "ok": the first precondition that fails, in the order of the claim.
ExpectedReservationStatus(evs, event_id, n) ==
    IF n = 0 THEN "InvalidTicketCount"
    ELSE IF n > 9357 THEN "TooManyTickets"
    ELSE IF event_id >= Len(evs) THEN "EventNotFound"
    ELSE IF evs[event_id + 1].ticket_count < n THEN "TicketShortage"
    ELSE "ok"

\* C12: make_reservation reports the first failing precondition in the order
\* ticket_count = 0 (InvalidTicketCount), ticket_count > 9357
\* (TooManyTickets), event_id >= number of events (EventNotFound),
\* available < ticket_count (TicketShortage), and succeeds when none fails.
C12_CheckOrder ==
    [][ response'.op = "reserve"
        => response'.status =
               ExpectedReservationStatus(events, response'.id,
                                         response'.ticket_count)
      ]_vars

\* C12 witness: a request for 0 tickets of the first event id outside the
\* catalogue was answered InvalidTicketCount.
C12_Witness ==
    /\ response.op = "reserve"
    /\ response.ticket_count = 0
    /\ response.id = Len(events)
    /\ response.status = "InvalidTicketCount"

\* C18: every reservation in the store has at most 9357 =
\* (65507 - 7) \div 7 tickets, so its TICKETS reply of 1 + 4 + 2 +
\* 7 * ticket_count bytes fits in 65507; a request for 9358 tickets is
\* answered TooManyTickets, and a request for 9357 tickets fails only when
\* the event is unknown or has fewer than 9357 tickets available.
C18_TicketsReplyFits ==
    /\ 9357 = (65507 - 7) \div 7
    /\ \A id \in DOMAIN reservations :
          /\ reservations[id].ticket_count <= 9357
          /\ 1 + 4 + 2 + 7 * reservations[id].ticket_count <= 65507
    /\ (response.op = "reserve" /\ response.ticket_count = 9358)
          => response.status = "TooManyTickets"
    /\ (response.op = "reserve" /\ response.ticket_count = 9357
             /\ response.status # "ok")
          => \/ response.id >= Len(events)
             \/ events[response.id + 1].ticket_count < 9357

\* C18 witness: a reservation of 9357 tickets was accepted and is in the
\* store, and a later request for 9358 tickets was refused.
C18_Witness ==
    /\ \E id \in DOMAIN reservations : reservations[id].ticket_count = 9357
    /\ response.op = "reserve"
    /\ response.ticket_count = 9358
    /\ response.status = "TooManyTickets"

\* C13: get_tickets sweeps first, then looks the id up, then compares the
\* cookie.  A get_tickets at time now for a reservation that was never
\* redeemed and whose deadline is before now is answered
\* ReservationNotFound whatever cookie is presented, and the record is gone
\* from the store; an id that was never issued is answered
\* ReservationNotFound whatever the cookie.
C13_RedeemCheckOrder ==
    response.op = "redeem" =>
        /\ \A k \in IssuedIndex :
              (issued[k].reservation_id = response.id
                   /\ ~ response.repeated
                   /\ issued[k].expiration_time < now)
              => /\ response.status = "ReservationNotFound"
                 /\ response.tickets = << >>
                 /\ response.id \notin DOMAIN reservations
        /\ (\A k \in IssuedIndex : issued[k].reservation_id # response.id)
              => response.status = "ReservationNotFound"

\* C13 witness: the right cookie was presented for an issued, never redeemed
\* reservation after its deadline, and the answer was ReservationNotFound.
C13_Witness ==
    /\ response.op = "redeem"
    /\ response.cookie = "own"
    /\ response.status = "ReservationNotFound"
    /\ \E k \in IssuedIndex :
          /\ issued[k].reservation_id = response.id
          /\ issued[k].expiration_time < now
          /\ ~ WasRedeemed(k)

\* C14: a get_tickets whose cookie differs from the stored one in one byte,
\* at any position 0 .. 47, returns no ticket codes; when the reservation is
\* in the store the answer is InvalidCookie and the record's received flag
\* is what it was (true only if an earlier get_tickets had succeeded), so a
\* reservation that was never redeemed is erased, and its tickets are given
\* back, by the first get_tickets handled after its deadline.
C14_CookieMismatch ==
    /\ (response.op = "redeem" /\ response.cookie = "changed")
          => /\ response.status # "ok"
             /\ response.reply = "BAD_REQUEST"
             /\ response.tickets = << >>
             /\ response.id \in DOMAIN reservations
                   => /\ response.status = "InvalidCookie"
                      /\ reservations[response.id].received = response.repeated
                      /\ response.repeated = (response.id \in DOMAIN redeemed)
             /\ response.id \notin DOMAIN reservations
                   => response.status = "ReservationNotFound"
    /\ response.op = "redeem"
          => \A k \in IssuedIndex :
                (~ WasRedeemed(k) /\ issued[k].expiration_time < now)
                => /\ issued[k].reservation_id \notin DOMAIN reservations
                   /\ events[issued[k].event_id + 1].ticket_count
                          = InitialTickets[issued[k].event_id + 1]
                                - RightfullyHeld(issued[k].event_id, now)

\* C14 witness: a cookie whose first byte was changed was presented for a
\* reservation in the store that was never redeemed; the answer was
\* InvalidCookie and the record is still not received.
C14_Witness ==
    /\ response.op = "redeem"
    /\ response.cookie = "changed"
    /\ probe.op = "cookie"
    /\ probe.position = 0
    /\ response.status = "InvalidCookie"
    /\ response.id \in DOMAIN reservations
    /\ ~ reservations[response.id].received

\* C15: the cookies of two Reservation objects are equal exactly when their
\* reservation ids are equal: different ids never share a cookie, and the
\* cookie depends on nothing but the id (the two objects differ in event,
\* ticket count and deadline).
C15_CookiesCollisionFree ==
    probe.op = "cookies" =>
        /\ ~ uint32_less(probe.reservation_id, MIN_RESERVATION_ID)
        /\ ~ uint32_less(probe.other_id, MIN_RESERVATION_ID)
        /\ (probe.cookie = probe.other_cookie)
               <=> (probe.reservation_id = probe.other_id)

\* C15 witness: two ids 510510 apart, whose cookies agree in the first seven
\* bytes and differ later.
C15_Witness ==
    /\ probe.op = "cookies"
    /\ probe.reservation_id = MIN_RESERVATION_ID
    /\ probe.other_id = MIN_RESERVATION_ID + 510510
    /\ \A k \in 1 .. 7 : probe.cookie[k] = probe.other_cookie[k]
    /\ probe.cookie # probe.other_cookie

\* C16: a generated cookie has 48 bytes and each of them is in 33 .. 122.
C16_CookieBytesPrintable ==
    probe.op = "cookies" =>
        /\ DOMAIN probe.cookie = 1 .. 48
        /\ DOMAIN probe.other_cookie = 1 .. 48
        /\ \A k \in 1 .. 48 :
              /\ probe.cookie[k] \in 33 .. 122
              /\ probe.other_cookie[k] \in 33 .. 122

\* C16 witness: a cookie with the largest byte the moduli allow, 33 + 88, and
\* one with the smallest, 33.
C16_Witness ==
    /\ probe.op = "cookies"
    /\ \E k \in 1 .. 48 : probe.cookie[k] = 121
    /\ \E k \in 1 .. 48 : probe.other_cookie[k] = 33

\* The encoded size of the events lo .. hi of a catalogue with the given
\* description lengths.
RECURSIVE RefEventsBytes(_, _, _)
RefEventsBytes(descriptions, lo, hi) ==
    IF lo > hi THEN 0
    ELSE IF lo = hi THEN 4 + 2 + 1 + descriptions[lo]
    ELSE LET mid == (lo + hi) \div 2
         IN  RefEventsBytes(descriptions, lo, mid)
                 + RefEventsBytes(descriptions, mid + 1, hi)

\* The encoded size of the message id and the first k events.
RefEventsSize(descriptions, k) == 1 + RefEventsBytes(descriptions, 1, k)

\* C17 (as claimed): the EVENTS reply is the message id and the longest
\* prefix of the catalogue whose encoded size is at most 65507 bytes; no
\* event beyond that prefix is written, and nothing is written past the
\* buffer allocated for the reply.
C17_EventsReplyFits ==
    probe.op = "events" =>
        /\ RefEventsSize(probe.descriptions, probe.event_count) <= 65507
        /\ probe.event_count < Len(probe.descriptions)
              => RefEventsSize(probe.descriptions, probe.event_count + 1) > 65507
        /\ probe.size = RefEventsSize(probe.descriptions, probe.event_count)
        /\ probe.events_written = probe.event_count
        /\ probe.current_byte <= probe.size
        /\ probe.current_byte <= 65507
        /\ probe.outcome = "written"

\* C19: a make_reservation that throws is answered with a BadRequest whose
\* request_id is the event_id of the request, a get_tickets that throws with
\* a BadRequest whose request_id is the reservation_id of the request; a
\* RESERVATION or TICKETS reply is produced only for a call that succeeded.
C19_BadRequestEchoesId ==
    /\ (response.op \in { "reserve", "redeem" } /\ response.status # "ok")
          => /\ response.reply = "BAD_REQUEST"
             /\ response.request_id = response.id
             /\ response.reservation = NoReservation
             /\ response.tickets = << >>
    /\ response.reply \in { "RESERVATION", "TICKETS" }
          => response.status = "ok"
    /\ response.reply = "RESERVATION" => response.op = "reserve"
    /\ response.reply = "TICKETS" => response.op = "redeem"

\* C19 witness: a get_tickets for an issued reservation failed on its cookie
\* and the BadRequest carries the reservation id.
C19_Witness ==
    /\ response.op = "redeem"
    /\ response.status = "InvalidCookie"
    /\ response.reply = "BAD_REQUEST"
    /\ response.request_id >= 10000000
    /\ response.request_id \in DOMAIN reservations

\* The datagrams the claim calls malformed: empty, with an unknown message
\* id, shorter than the layout of its message id, or a GET_EVENTS with
\* trailing bytes.
Malformed(read_length, message_id) ==
    \/ read_length = 0
    \/ message_id \notin { 1, 3, 5 }
    \/ message_id = 1 /\ read_length > 1
    \/ message_id = 3 /\ read_length < 7
    \/ message_id = 5 /\ read_length < 53

\* C20: a malformed datagram produces no reply, neither a normal one nor
\* BAD_REQUEST, and leaves the catalogue, the store, the expiry queue, the
\* next id and the ticket counter as they were.
C20_MalformedDropped ==
    [][ (probe'.op = "datagram"
             /\ Malformed(probe'.read_length, probe'.message_id))
        => /\ response'.reply = "none"
           /\ UNCHANGED << timeout, events, reservations, reservation_queue,
                           next_reservation_id, base_ticket >>
      ]_vars

\* C20 witness: a GET_RESERVATION one byte short arrived while a
\* reservation was in the store, and nothing was answered.
C20_Witness ==
    /\ probe.op = "datagram"
    /\ probe.message_id = 3
    /\ probe.read_length = 6
    /\ response.reply = "none"
    /\ reservations # << >>
    /\ reservation_queue # << >>

\* C21 (as claimed): add_number of a number of 1, 2, 4 or 8 bytes appends
\* exactly that many bytes, most significant first, and read_number of the
\* same width on a new reader over them returns the number and advances
\* the read offset by the width.
C21_IntegerRoundTrip ==
    /\ (probe.op \in { "written", "read" }
           /\ CodecReads = 0
           /\ Len(probe.number) \in NumberWidths)
          => /\ probe.status = "ok"
             /\ probe.writer.m_offset = Len(probe.number)
             /\ \A k \in 1 .. Len(probe.number) :
                   probe.writer.m_buffer[k]
                       = probe.number[Len(probe.number) + 1 - k]
    /\ (probe.op = "read" /\ CodecReads = 0
           /\ Len(probe.number) \in NumberWidths)
          => /\ probe.read = probe.number
             /\ probe.read_length = Len(probe.number)

\* C22: the expiry queue is sorted, the expiration times never decrease from
\* its front to its back, and so after the sweep of a get_tickets at clock
\* value now no entry with expiration_time < now is left anywhere in it.
C22_QueueSorted ==
    /\ \A i, j \in 1 .. Len(reservation_queue) :
          i < j => reservation_queue[i].expiration_time
                       <= reservation_queue[j].expiration_time
    /\ response.op = "redeem"
          => \A q \in 1 .. Len(reservation_queue) :
                reservation_queue[q].expiration_time >= now

\* C22 witness: two reservations made at different times, and a sweep that
\* has popped the entry of the first, which had expired, and has left the
\* entry of the second, which has not.
C22_Witness ==
    /\ response.op = "redeem"
    /\ Len(issued) = 2
    /\ issued[1].expiration_time < now
    /\ issued[1].expiration_time < issued[2].expiration_time
    /\ Len(reservation_queue) = 1
    /\ reservation_queue[1].reservation_id = issued[2].reservation_id
    /\ reservation_queue[1].expiration_time >= now

\* The entries at the front of the expiry queue that have expired at clock
\* value t: the longest prefix with expiration_time < t.
ExpiredPrefix(t) ==
    { q \in 1 .. Len(reservation_queue) :
        \A p \in 1 .. q : reservation_queue[p].expiration_time < t }

\* The reservations of the entries of ExpiredPrefix(t) that are in the store
\* and have not been redeemed.
Reclaimable(t) ==
    { id \in DOMAIN reservations :
        /\ ~ reservations[id].received
        /\ \E q \in ExpiredPrefix(t) :
              reservation_queue[q].reservation_id = id }

\* C23: the sweep of a get_tickets at clock value now pops exactly the
\* front entries with expiration_time < now and stops at the first entry
\* with expiration_time >= now; a popped entry whose reservation is in the
\* store and not redeemed gives its tickets back to its event and its record
\* is erased, a popped entry of a redeemed reservation changes nothing but
\* the queue; so a reservation is still redeemable at now = expires_at.
C23_StrictExpiry ==
    [][ response'.op = "redeem" =>
          LET popped  == ExpiredPrefix(now')
              erased  == Reclaimable(now')
          IN  /\ reservation_queue'
                    = SubSeq(reservation_queue, Cardinality(popped) + 1,
                             Len(reservation_queue))
              /\ DOMAIN reservations' = DOMAIN reservations \ erased
              /\ \A e \in 1 .. Len(events) :
                    LET back == { id \in erased :
                                     reservations[id].event_id = e - 1 }
                    IN  events'[e].ticket_count
                            = events[e].ticket_count
                                + SumOver([ id \in back |->
                                              reservations[id].ticket_count ],
                                          back)
              /\ \A q \in popped :
                    LET id == reservation_queue[q].reservation_id
                    IN  (id \in DOMAIN reservations /\ reservations[id].received)
                            => reservations'[id] = reservations[id]
              /\ \A k \in IssuedIndex :
                    (/\ issued[k].reservation_id = response'.id
                     /\ issued[k].expiration_time = now'
                     /\ response'.cookie = "own")
                    => /\ response'.status = "ok"
                       /\ Len(response'.tickets) = issued[k].ticket_count
      ]_vars

\* C23 witness: a get_tickets at the deadline of a reservation has just
\* redeemed it for the first time, and its sweep has popped the entry of an
\* earlier reservation and erased that reservation.
C23_Witness ==
    /\ response.op = "redeem"
    /\ response.status = "ok"
    /\ ~ response.repeated
    /\ Len(issued) = 2
    /\ response.id = issued[2].reservation_id
    /\ now = issued[2].expiration_time
    /\ issued[1].expiration_time < now
    /\ issued[1].reservation_id \notin DOMAIN reservations
    /\ Len(reservation_queue) = 1

\* C24 (as claimed): cmp_cookies looks at all 48 positions on every call,
\* wherever the first differing byte is, and its result is right.
C24_ConstantTimeCompare ==
    probe.op = "compared"
        => /\ probe.inspected = COOKIE_LEN
           /\ probe.equal = (probe.position = COOKIE_LEN)

\* C25: a make_reservation that fails, with InvalidTicketCount,
\* TooManyTickets, EventNotFound, TicketShortage or InvalidReservationID,
\* leaves the events, the store, the queue, next_reservation_id and
\* base_ticket as they were.
C25_FailedReservationFrame ==
    [][ (response'.op = "reserve" /\ response'.status # "ok")
          => /\ response'.status \in { "InvalidTicketCount", "TooManyTickets",
                                      "EventNotFound", "TicketShortage",
                                      "InvalidReservationID" }
             /\ UNCHANGED << timeout, events, reservations, reservation_queue,
                             next_reservation_id, base_ticket >>
      ]_vars

\* C25 witness: a make_reservation has failed with InvalidReservationID
\* while the store held a reservation, the queue an entry and an event had
\* tickets enough for the request.
C25_Witness ==
    /\ response.op = "reserve"
    /\ response.status = "InvalidReservationID"
    /\ DOMAIN reservations # {}
    /\ reservation_queue # << >>
    /\ events[response.id + 1].ticket_count >= response.ticket_count

\* The positions of the expiry queue that carry reservation id.
QueueEntries(id) ==
    { q \in 1 .. Len(reservation_queue) :
        reservation_queue[q].reservation_id = id }

\* C26: every reservation in the store that has not been redeemed has
\* exactly one entry in the expiry queue, and that entry carries the
\* expiration time the reservation was issued with.
C26_StoreQueueConsistency ==
    \A id \in DOMAIN reservations :
        ~ reservations[id].received
            => /\ Cardinality(QueueEntries(id)) = 1
               /\ \A q \in QueueEntries(id) : \A k \in IssuedIndex :
                     issued[k].reservation_id = id
                         => reservation_queue[q].expiration_time
                                = issued[k].expiration_time

\* C26 witness: after a sweep that popped the entry of a redeemed
\* reservation the store holds that reservation and one that has not been
\* redeemed, and the queue holds the entry of the latter only.
C26_Witness ==
    /\ Len(issued) = 2
    /\ WasRedeemed(1)
    /\ QueueEntries(issued[1].reservation_id) = {}
    /\ issued[2].reservation_id \in DOMAIN reservations
    /\ ~ reservations[issued[2].reservation_id].received
    /\ Len(reservation_queue) = 1

\* C27: once get_tickets has succeeded for a reservation, a get_tickets with
\* the same id and the right cookie succeeds at every later clock value,
\* also after expires_at and after the sweep has popped the queue entry,
\* and returns the codes the first call returned; the record of a redeemed
\* reservation is never removed from the store.
C27_RedeemedStaysRedeemable ==
    /\ (response.op = "redeem" /\ response.cookie = "own" /\ response.repeated)
          => /\ response.status = "ok"
             /\ response.tickets = redeemed[response.id]
    /\ \A id \in DOMAIN redeemed :
          /\ id \in DOMAIN reservations
          /\ ticket_codes(reservations[id].ticket_min,
                          reservations[id].ticket_count) = redeemed[id]

\* C27 witness: a get_tickets has succeeded again for a redeemed
\* reservation after its deadline, its queue entry popped.
C27_Witness ==
    /\ response.op = "redeem"
    /\ response.status = "ok"
    /\ response.repeated
    /\ QueueEntries(response.id) = {}
    /\ \E k \in IssuedIndex :
          /\ issued[k].reservation_id = response.id
          /\ issued[k].expiration_time < now

\* C28: base_ticket changes only in a make_reservation that succeeds, and
\* then advances by exactly ticket_count; get_tickets, its sweep and failed
\* reservations leave it as it is, so the block of codes of a reservation,
\* expired and reclaimed or not, is never given to a later reservation.
C28_MinterFrame ==
    [][ /\ IF response'.op = "reserve" /\ response'.status = "ok"
           THEN RefValue(base_ticket')
                    = RefValue(base_ticket) + response'.ticket_count
           ELSE base_ticket' = base_ticket
        /\ \A k, l \in 1 .. Len(issued') :
              k < l => RefValue(issued'[l].ticket_base)
                           >= RefValue(issued'[k].ticket_base)
                                + issued'[k].ticket_count
      ]_vars

\* C28 witness: a reservation has just been made after the sweep erased an
\* earlier one that had expired unredeemed.
C28_Witness ==
    /\ response.op = "reserve"
    /\ response.status = "ok"
    /\ Len(issued) = 2
    /\ issued[1].reservation_id \notin DOMAIN reservations
    /\ issued[2].ticket_base # issued[1].ticket_base

\* C29: reservation ids never wrap: a make_reservation that gets as far as
\* asking for an id when next_reservation_id is the largest value of its
\* type throws InvalidReservationID and leaves next_reservation_id there;
\* every id handed out is next_reservation_id, at least 10^7 and different
\* from every id handed out before.
C29_IdsNeverWrap ==
    [][ response'.op = "reserve" =>
          /\ next_reservation_id = UINT32_MAX
                => /\ response'.status # "ok"
                   /\ next_reservation_id' = UINT32_MAX
          /\ response'.status = "InvalidReservationID"
                => next_reservation_id = UINT32_MAX
          /\ response'.status = "ok"
                => /\ response'.reservation.reservation_id = next_reservation_id
                   /\ ~ uint32_less(response'.reservation.reservation_id,
                                    MIN_RESERVATION_ID)
                   /\ response'.reservation.reservation_id \notin IssuedIds
                   /\ next_reservation_id' = uint32_add1(next_reservation_id)
                   /\ uint32_less(next_reservation_id, next_reservation_id')
      ]_vars

\* C29 witness: make_reservation has thrown InvalidReservationID after the
\* last id below the largest value was handed out, and the reservation with
\* that id has been redeemed.
C29_Witness ==
    /\ response.op = "reserve"
    /\ response.status = "InvalidReservationID"
    /\ next_reservation_id = UINT32_MAX
    /\ Len(issued) = WrapDistance
    /\ issued[Len(issued)].reservation_id = UINT32_MAX - 1
    /\ WasRedeemed(Len(issued))

\* C30 (as claimed): the NetworkWriter never writes outside its buffer:
\* after any sequence of add_number and write_to_buffer calls, also of
\* write_to_buffer(string, length) with length below the length of the
\* string, m_offset <= m_buffer_size, a write that does not fit throws
\* BufferOverflow and leaves m_offset as it was, and length() is the number
\* of bytes written.  (An add_number that throws InvalidType has not come
\* to a write; it leaves m_offset as it was, too.)
C30_WriterBounds ==
    probe.op = "writer"
        => /\ probe.writer.m_offset <= probe.writer.m_buffer_size
           /\ probe.writer.outside = 0
           /\ probe.writer.m_offset = probe.copied
           /\ probe.status # "InvalidType"
                  => ((probe.status = "BufferOverflow")
                        = (probe.before + probe.length
                               > probe.writer.m_buffer_size))
           /\ probe.status \in { "BufferOverflow", "InvalidType" }
                  => probe.writer.m_offset = probe.before

====
